---- MODULE Spec2Model ----
(***************************************************************************)
(* Model of competitor-hunter: the two-stage analysis pipeline             *)
(* (core/graph.py), the extraction service with its token-budget           *)
(* truncation (infrastructure/llm/extractor.py) and the browser service    *)
(* (infrastructure/browser/crawler.py), awaited operation by awaited       *)
(* operation: for one task, for two tasks that share the service, and as   *)
(* the runs of the pipeline drive it.                                      *)
(*                                                                         *)
(* Representation of Python values                                         *)
(*   Optional[T]   a sequence of length <= 1: None is <<>>, a value v is   *)
(*                 <<v>>.                                                  *)
(*   page text     a run-length encoded string: a sequence of runs         *)
(*                 [k |-> kind, n |-> number of characters], adjacent runs *)
(*                 of different kinds and n > 0.  Slicing and len() are    *)
(*                 exact on this encoding, so the real limits (15000       *)
(*                 tokens, 60000 characters) are kept unscaled.            *)
(*   message       a sequence of string fragments; an f-string is the      *)
(*                 concatenation of its fragments.                         *)
(***************************************************************************)
EXTENDS Integers, Sequences, FiniteSets, TLC

VARIABLES
    \* ---- _truncate_content applied to a text, then to its own result
    tIn, tOut, tOut2, tStage,
    \* ---- one call of CompetitorExtractor.extract_from_markdown
    xText,      \* markdown_content
    xUrl,       \* source_url
    xStage,     \* "idle", "awaiting" (suspended in ainvoke) or "done"
    xRequest,   \* Optional: what the call put in the model request
    xModel,     \* Optional: what structured_llm.ainvoke did
    xResult,    \* Optional: what the call returned or raised
    \* ---- runs of the compiled graph on the BrowserService of the module
    run,        \* per slot: the run of graph.ainvoke in it, see BlankRun
    runs,       \* number of runs started
    browser_service, \* graph._browser_service is not None
    extractor,  \* graph._extractor is not None
    \* ---- calls of BrowserService, awaited operation by awaited operation
    bsvc,       \* BrowserService: its playwright, browser and context handles
    env,        \* the drivers, browsers, contexts and pages that are open
    task,       \* per asyncio task: where its call is suspended, its locals
    calls,      \* per task: the number of calls it has made
    callCap,    \* number of calls a task of the behaviour may make
    faultsLeft, \* Optional: number of awaited operations that may yet raise
    heightCap   \* height up to which the pages of the behaviour grow

truncVars == <<tIn, tOut, tOut2, tStage>>
extractVars == <<xText, xUrl, xStage, xRequest, xModel, xResult>>
browserVars == <<bsvc, env, task, calls, callCap, faultsLeft, heightCap>>
pipeVars == <<run, runs, browser_service, extractor>>
vars == <<tIn, tOut, tOut2, tStage,
          xText, xUrl, xStage, xRequest, xModel, xResult,
          run, runs, browser_service, extractor,
          bsvc, env, task, calls, callCap, faultsLeft, heightCap>>

(***************************************************************************)
(* Bounds of the model                                                     *)
(***************************************************************************)
\* number of runs of an input text for the truncation specification
MaxRuns == 2
\* number of pipeline runs started on the BrowserService of the module
MaxPipelineRuns == 2
\* number of nodes the graph engine enters in one run before it stops
MaxNodeVisits == 3

\* number of calls of start, close and fetch_page_content made one after the
\* other by one task on one BrowserService
MaxCalls == 3
\* number of calls made by each of two tasks that share one BrowserService
MaxConcCalls == 1
\* height up to which a page grows while it is scrolled
MaxPageHeight == 12
\* the same, for the pages of the tasks that share one BrowserService
MaxConcHeight == 1

\* number of failures while the runs of the pipeline share the service: an
\* awaited operation of the browser that raises, the constructor of the
\* extractor raising, or the name logs being a file, which fails every
\* mkdir of the behaviour
MaxFaults == 1

\* the runs of graph.ainvoke that are in progress at a time: server.py
\* awaits one per request
RunSlots == {1, 2}

(***************************************************************************)
(* Optional values                                                         *)
(***************************************************************************)
None == <<>>
Some(v) == <<v>>
IsSet(o) == o # <<>>
\* Python truth value of an Optional[str]: neither None nor empty
Truthy(o) == o # <<>> /\ o[1] # <<>>

(***************************************************************************)
(* Page text                                                               *)
(***************************************************************************)
\* Kinds of characters, by how the tokenizer encodes a run of them:
\*   "d"  dense   every character is a token of its own (CJK, symbols)
\*   "p"  prose   four characters per token (the ratio extractor.py assumes)
\*   "b"  blank   long runs merge, sixty-four characters per token
\*   "m"  the characters of the elision marker
Kinds == {"d", "p", "b"}
MarkerKind == "m"

CharsPerTokenOf(k) ==
    CASE k = "d" -> 1
      [] k = "p" -> 4
      [] k = "b" -> 64
      [] k = "m" -> 4

EmptyText == <<>>

\* a text of n characters of one kind
D(n) == <<[k |-> "d", n |-> n]>>
P(n) == <<[k |-> "p", n |-> n]>>
B(n) == <<[k |-> "b", n |-> n]>>

RECURSIVE Norm(_)
\* canonical form: no empty run, no two adjacent runs of one kind
Norm(t) ==
    IF t = <<>> THEN <<>>
    ELSE IF Head(t).n = 0 THEN Norm(Tail(t))
    ELSE LET r == Norm(Tail(t))
         IN  IF r # <<>> /\ Head(r).k = Head(t).k
             THEN <<[k |-> Head(t).k, n |-> Head(t).n + Head(r).n]>> \o Tail(r)
             ELSE <<Head(t)>> \o r

RECURSIVE TextLen(_)
\* len(text)
TextLen(t) == IF t = <<>> THEN 0 ELSE Head(t).n + TextLen(Tail(t))

RECURSIVE TakeChars(_, _)
\* the first c characters of t, for 0 <= c
TakeChars(t, c) ==
    IF t = <<>> \/ c <= 0 THEN <<>>
    ELSE IF Head(t).n <= c
         THEN <<Head(t)>> \o TakeChars(Tail(t), c - Head(t).n)
         ELSE <<[k |-> Head(t).k, n |-> c]>>

RECURSIVE DropChars(_, _)
\* t without its first c characters, for 0 <= c
DropChars(t, c) ==
    IF t = <<>> \/ c <= 0 THEN t
    ELSE IF Head(t).n <= c
         THEN DropChars(Tail(t), c - Head(t).n)
         ELSE <<[k |-> Head(t).k, n |-> Head(t).n - c]>> \o Tail(t)

\* Python text[:c] for c >= 0
SlicePrefix(t, c) == TakeChars(t, c)

\* Python text[-c:] for c >= 0; text[-0:] is text[0:], the whole text
SliceSuffix(t, c) ==
    IF c = 0 \/ c >= TextLen(t) THEN t ELSE DropChars(t, TextLen(t) - c)

\* string concatenation
Concat(a, b) == Norm(a \o b)

CeilDiv(a, b) == (a + b - 1) \div b

RECURSIVE SumTokens(_)
SumTokens(t) ==
    IF t = <<>> THEN 0
    ELSE CeilDiv(Head(t).n, CharsPerTokenOf(Head(t).k)) + SumTokens(Tail(t))

(***************************************************************************)
(* Extraction service: token budget                                        *)
(***************************************************************************)
CHARS_PER_TOKEN == 4
MAX_TOKENS == 15000
TRUNCATE_CHARS == MAX_TOKENS * CHARS_PER_TOKEN

\* the literal "\n\n[... content truncated ...]\n\n", 31 characters
ElisionMarkerLen == 31
ElisionMarker == <<[k |-> MarkerKind, n |-> ElisionMarkerLen]>>

\* CompetitorExtractor._count_tokens: len(self.encoding.encode(text))
CountTokens(t) == SumTokens(Norm(t))

\* a slip of the factor: int(TRUNCATE_CHARS * 4)
KeepChars_FactorFour == TRUNCATE_CHARS * 4

\* int(TRUNCATE_CHARS * 0.4)
KeepChars == (TRUNCATE_CHARS * 4) \div 10

\* which branch of _truncate_content a text takes
TruncateBranch(t) ==
    IF CountTokens(t) <= MAX_TOKENS THEN "verbatim"
    ELSE IF TextLen(t) <= TRUNCATE_CHARS THEN "prefix"
    ELSE "split"

\* a slip of the budget test: the character length is compared with the
\* token ceiling, where the code compares the token count
TruncateContent_LenForTokens(t) ==
    IF TextLen(t) <= MAX_TOKENS THEN t
    ELSE IF TextLen(t) <= TRUNCATE_CHARS
         THEN SlicePrefix(t, TRUNCATE_CHARS)
         ELSE Concat(Concat(SlicePrefix(t, KeepChars), ElisionMarker),
                     SliceSuffix(t, KeepChars))

\* a slip of the footer slice: markdown_content[keep_chars:], without the
\* minus sign
TruncateContent_FooterFromKeep(t) ==
    IF CountTokens(t) <= MAX_TOKENS THEN t
    ELSE IF TextLen(t) <= TRUNCATE_CHARS
         THEN SlicePrefix(t, TRUNCATE_CHARS)
         ELSE Concat(Concat(SlicePrefix(t, KeepChars), ElisionMarker),
                     DropChars(t, KeepChars))

\* CompetitorExtractor._truncate_content
TruncateContent(t) ==
    IF CountTokens(t) <= MAX_TOKENS THEN t
    ELSE IF TextLen(t) <= TRUNCATE_CHARS
         THEN SlicePrefix(t, TRUNCATE_CHARS)
         ELSE Concat(Concat(SlicePrefix(t, KeepChars), ElisionMarker),
                     SliceSuffix(t, KeepChars))

(***************************************************************************)
(* Messages and exceptions                                                 *)
(***************************************************************************)
\* the fragments of sub occur in msg, whole and one after the other, as an
\* f-string that formats sub into msg puts them there.  The string of sub
\* is then a substring of the string of msg (Python's `sub in msg`); a
\* substring that begins or ends inside a fragment is not looked for.
HasFragments(msg, sub) ==
    \E i \in 0..(Len(msg) - Len(sub)) : SubSeq(msg, i + 1, i + Len(sub)) = sub

\* An exception: its class and str(e)
Exc(cls, msg) == [cls |-> cls, msg |-> msg]

\* the classes that occur, all of them subclasses of Exception
ExceptionClasses ==
    {"Exception", "ValueError", "AttributeError", "ValidationError",
     "PlaywrightError", "PlaywrightTimeoutError", "APIError", "FileExistsError",
     "OpenAIError"}

\* a handler that names one class too narrowly
CaughtByExceptException_ValueErrorOnly(cls) == cls = "ValueError"

\* `except Exception` (graph.py:128, graph.py:193, extractor.py:225)
CaughtByExceptException(cls) == cls \in ExceptionClasses

(***************************************************************************)
(* Extraction service: the model call                                      *)
(***************************************************************************)
Urls == {"https://example.com", "https://www.notion.so/pricing"}

\* url values a model may put in its record: a wrong one, a relative one
ModelUrls == Urls \cup {"/pricing"}

ProTier ==
    [name |-> "Pro", price |-> "29.99", currency |-> "USD",
     billing_cycle |-> "monthly"]

\* CompetitorProduct (last_updated left out: no code of the pipeline reads it)
ProductRecords(urls) ==
    [product_name : {"Test Product"},
     url : urls,
     pricing_tiers : {<<>>, <<ProTier>>},
     core_features : {<<>>, <<"Feature 1">>},
     summary : {"Test summary"}]

\* str(e) of the failures of structured_llm.ainvoke, one fragment each
ValidationText == "1 validation error for CompetitorProduct"
AuthText == "Error code: 401 - Incorrect API key provided"
UpstreamText == "The OpenAI service is unavailable"
ConnectionText == "Connection error."
RateLimitText == "Rate limit reached for requests"
NoneAttrText == "'NoneType' object has no attribute 'url'"

\* the fragments f with "api" in f.lower(), and with "openai" in f.lower()
FragmentsWithApi == {AuthText}
FragmentsWithOpenai == {UpstreamText}

\* "api" in str(e).lower() or "openai" in str(e).lower()
HasProviderMarker(msg) ==
    \E i \in DOMAIN msg : msg[i] \in FragmentsWithApi \cup FragmentsWithOpenai

\* What `await self.structured_llm.ainvoke(messages)` can do: return a
\* record, return None (no structured output parsed), or raise.
ModelReturns(rec) == [kind |-> "record", rec |-> Some(rec), exc |-> None]
ModelReturnsNone == [kind |-> "none", rec |-> None, exc |-> None]
ModelRaises(cls, text) ==
    [kind |-> "raise", rec |-> None, exc |-> Some(Exc(cls, <<text>>))]

ModelFailures ==
    {ModelRaises("ValidationError", ValidationText),
     ModelRaises("APIError", AuthText),
     ModelRaises("APIError", UpstreamText),
     ModelRaises("APIError", ConnectionText),
     ModelRaises("APIError", RateLimitText),
     ModelRaises("Exception", "")}

ModelOutcomes(urls) ==
    {ModelReturns(r) : r \in ProductRecords(urls)}
        \cup {ModelReturnsNone} \cup ModelFailures

\* results of a service call: a returned value or a raised exception
Returned(v) == [kind |-> "return", val |-> Some(v), exc |-> None]
Raised(cls, msg) == [kind |-> "raise", val |-> None, exc |-> Some(Exc(cls, msg))]

\* str(e) as the fragments of a message: the empty string adds nothing
StrOf(e) == IF e.msg = <<"">> THEN <<>> ELSE e.msg

\* extract_from_markdown up to the await: the text placed in the request
\* (extractor.py:185-206)
ExtractRequest(markdown_content, source_url) ==
    [source_url |-> source_url,
     processed_content |-> TruncateContent(markdown_content)]

\* the record is returned as the model gave it
SetUrl_KeepModelUrl(rec, source_url) == rec

\* a service that fills an empty tier list with a placeholder
SetUrl_PlaceholderTier(rec, source_url) ==
    [rec EXCEPT !.url = source_url,
                !.pricing_tiers = IF @ = <<>> THEN <<ProTier>> ELSE @]

\* result.url = source_url (extractor.py:210)
SetUrl(rec, source_url) == [rec EXCEPT !.url = source_url]

\* the handlers of extract_from_markdown, applied to the exception e raised
\* in its try block (extractor.py:220-233)
ExtractHandlers(e, source_url) ==
    IF e.cls = "ValidationError"
    THEN Raised("ValueError",
                <<"Pydantic validation error during extraction: ">> \o StrOf(e))
    ELSE IF HasProviderMarker(StrOf(e))
         THEN Raised("ValueError", <<"OpenAI API error: ">> \o StrOf(e))
         ELSE Raised("Exception",
                     <<"LLM extraction failed for URL ", source_url, ": ">>
                         \o StrOf(e))

\* extract_from_markdown from the await on (extractor.py:207-233), for what
\* the model call did
ExtractResult(model, source_url) ==
    CASE model.kind = "record" ->
            Returned(SetUrl(model.rec[1], source_url))
      [] model.kind = "none" ->
            \* None.url = source_url raises AttributeError in the try block
            ExtractHandlers(Exc("AttributeError", <<NoneAttrText>>), source_url)
      [] model.kind = "raise" ->
            ExtractHandlers(model.exc[1], source_url)

(***************************************************************************)
(* Browser service: the messages of its failures and its handlers          *)
(***************************************************************************)
\* str(e) of what start() and _create_context raise
DriverFailText == "Playwright driver failed to start"
LaunchFailText == "Executable doesn't exist at ms-playwright/chromium"
NoBrowserText == "'NoneType' object has no attribute 'new_context'"

\* handlers without the clause for the timeout class
FetchHandlers_AllGeneral(e, url) ==
    Raised("Exception", <<"Error fetching content from ", url, ": ">> \o StrOf(e))

\* the handlers of fetch_page_content, applied to the exception e raised in
\* its try block (crawler.py:251-271)
FetchHandlers(e, url) ==
    IF e.cls = "PlaywrightTimeoutError"
    THEN Raised("Exception", <<"Timeout while fetching ", url, ": ">> \o StrOf(e))
    ELSE Raised("Exception",
                <<"Error fetching content from ", url, ": ">> \o StrOf(e))

(***************************************************************************)
(* Pipeline: AgentState, the two nodes, the gate and the graph             *)
(***************************************************************************)
AgentState(url, scraped_content, product, error) ==
    [url |-> url, scraped_content |-> scraped_content,
     product |-> product, error |-> error]

\* a success branch that also resets the product
NodeScrapeSuccess_ClearsProduct(st, scraped_content) ==
    [st EXCEPT !.scraped_content = Some(scraped_content), !.error = None,
               !.product = None]

\* node_scrape on success (graph.py:122-126)
NodeScrapeSuccess(st, scraped_content) ==
    [st EXCEPT !.scraped_content = Some(scraped_content), !.error = None]

\* the except branch without its "scraped_content": None
NodeScrapeFailure_KeepsContent(st, e) ==
    [st EXCEPT !.error = Some(<<"Failed to scrape URL ", st.url, ": ">> \o StrOf(e))]

\* node_scrape on failure (graph.py:128-137)
NodeScrapeFailure(st, e) ==
    [st EXCEPT !.error = Some(<<"Failed to scrape URL ", st.url, ": ">> \o StrOf(e)),
               !.scraped_content = None]

\* the safety branch without its "product": None
NodeExtractMissing_KeepsProduct(st) ==
    [st EXCEPT !.error = Some(<<"Cannot extract: scraped_content is missing">>)]

\* node_extract without content (graph.py:160-167)
NodeExtractMissing(st) ==
    [st EXCEPT !.error = Some(<<"Cannot extract: scraped_content is missing">>),
               !.product = None]

\* the success branch without its "product": product
NodeExtractSuccess_ErrorOnly(st, product) == [st EXCEPT !.error = None]

\* node_extract on success (graph.py:187-191)
NodeExtractSuccess(st, product) ==
    [st EXCEPT !.product = Some(product), !.error = None]

\* the except branch without its "error": error_msg
NodeExtractFailure_DropsError(st, e) == [st EXCEPT !.product = None]

\* node_extract on failure (graph.py:193-202)
NodeExtractFailure(st, e) ==
    [st EXCEPT !.error = Some(<<"Failed to extract product information from ",
                                st.url, ": ">> \o StrOf(e)),
               !.product = None]

END == "end"
Nodes == {"scrape", "extract"}

\* the gate sends every state on to extraction
ShouldContinue_AlwaysExtract(st) == "extract"

\* should_continue (graph.py:205-221)
ShouldContinue(st) == IF Truthy(st.error) THEN "end" ELSE "extract"

\* the graph entered at the extraction node
EntryPoint_Extract == "extract"

\* workflow.set_entry_point("scrape") (graph.py:240)
EntryPoint == "scrape"

\* the "end" label wired back to the scrape node
ConditionalTarget_EndToScrape(label) ==
    IF label = "extract" THEN "extract" ELSE "scrape"

\* workflow.add_conditional_edges("scrape", should_continue, {...})
\* (graph.py:244-251)
ConditionalTarget(label) == IF label = "extract" THEN "extract" ELSE END

\* an edge that leads from the extract node back to the scrape node
EdgeTarget_BackToScrape(node) == "scrape"

\* workflow.add_edge("extract", END) (graph.py:254)
EdgeTarget(node) == END

(***************************************************************************)
(* Specification SpecTrunc: _truncate_content as a function                *)
(***************************************************************************)
\* run lengths that put a text on either side of each limit of the code
TextLens == {1, 15000, 15001, 24000, 60000, 60004}

RunsOf(len) == [1..len -> [k : Kinds, n : TextLens]]

\* the texts of at most maxRuns runs, in canonical form
TextsUpTo(maxRuns) ==
    {EmptyText} \cup
    UNION {{t \in RunsOf(len) : \A i \in 1..(len - 1) : t[i].k # t[i + 1].k}
           : len \in 1..maxRuns}

\* texts with a head, a middle and a tail of three different kinds, the
\* middle lying wholly in the part a head/tail split removes
MarkedTexts ==
    {Concat(P(24000), Concat(B(15000), D(24000))),
     Concat(D(24000), Concat(P(15001), B(24000))),
     Concat(B(24000), Concat(D(60004), P(24000)))}

TruncInputs == TextsUpTo(MaxRuns) \cup MarkedTexts

\* the variables of the truncation specification, when it is not the one run
TruncIdle ==
    /\ tIn = EmptyText
    /\ tOut = EmptyText
    /\ tOut2 = EmptyText
    /\ tStage = "idle"

\* the variables of the extraction specification, when it is not the one run
ExtractIdle ==
    /\ xText = EmptyText
    /\ xUrl = ""
    /\ xStage = "off"
    /\ xRequest = None
    /\ xModel = None
    /\ xResult = None

\* the variables of the pipeline specification, when it is not the one run
PipeIdle ==
    /\ run = <<>>
    /\ runs = 0
    /\ browser_service = FALSE
    /\ extractor = FALSE

\* the variables of the browser specifications, when neither is the one run
BrowserIdle ==
    /\ bsvc = None
    /\ env = None
    /\ task = <<>>
    /\ calls = <<>>
    /\ callCap = 0
    /\ faultsLeft = None
    /\ heightCap = 0

InitTrunc ==
    /\ tIn \in TruncInputs
    /\ tOut = EmptyText
    /\ tOut2 = EmptyText
    /\ tStage = "input"
    /\ ExtractIdle
    /\ PipeIdle
    /\ BrowserIdle

\* one call of _truncate_content on the input
TruncateOnce ==
    /\ tStage = "input"
    /\ tOut' = TruncateContent(tIn)
    /\ tStage' = "once"
    /\ UNCHANGED <<tIn, tOut2>>
    /\ UNCHANGED extractVars
    /\ UNCHANGED <<pipeVars, browserVars>>

\* a second call, on the result of the first
TruncateAgain ==
    /\ tStage = "once"
    /\ tOut2' = TruncateContent(tOut)
    /\ tStage' = "twice"
    /\ UNCHANGED <<tIn, tOut>>
    /\ UNCHANGED extractVars
    /\ UNCHANGED <<pipeVars, browserVars>>

NextTrunc == TruncateOnce \/ TruncateAgain

SpecTrunc == InitTrunc /\ [][NextTrunc]_vars

\* C8: a text whose token count is at or below MAX_TOKENS is returned
\* unchanged by _truncate_content, whatever its character length, and a
\* second truncation of the result returns it unchanged again.
C8_WithinBudgetVerbatim ==
    CountTokens(tIn) <= MAX_TOKENS =>
        /\ (tStage \in {"once", "twice"} => tOut = tIn)
        /\ (tStage = "twice" => tOut2 = tOut)

\* a text within the token ceiling but longer than the character budget has
\* been truncated twice and is still the input
C8_Witness ==
    /\ tStage = "twice"
    /\ CountTokens(tIn) <= MAX_TOKENS
    /\ TextLen(tIn) > TRUNCATE_CHARS
    /\ tOut = tIn
    /\ tOut2 = tIn

\* C9: when the token count of the text given to _truncate_content exceeds
\* MAX_TOKENS, the token count of the result is at most that of the text;
\* this is so for the prefix cut and for the head/tail split, on the first
\* call and on the call applied to its result.
C9_TruncationNeverAddsTokens ==
    /\ (tStage \in {"once", "twice"} /\ CountTokens(tIn) > MAX_TOKENS
            => CountTokens(tOut) <= CountTokens(tIn))
    /\ (tStage = "twice" /\ CountTokens(tOut) > MAX_TOKENS
            => CountTokens(tOut2) <= CountTokens(tOut))

\* the first call took the head/tail split and lost tokens, the second call,
\* on its result, took the prefix cut
C9_Witness ==
    /\ tStage = "twice"
    /\ TruncateBranch(tIn) = "split"
    /\ TruncateBranch(tOut) = "prefix"
    /\ CountTokens(tOut) < CountTokens(tIn)
    /\ CountTokens(tOut2) <= CountTokens(tOut)

\* the kinds of characters that occur in a text
KindsIn(t) == {t[i].k : i \in DOMAIN t}

\* C11: for a text over the token ceiling that is longer than the character
\* budget, the result of _truncate_content is the first 40% of the character
\* budget of the text, then the elision marker, then the last 40% of the
\* character budget of the text; what lies only in the removed middle is not
\* in the result.
C11_SplitIsHeadMarkerTail ==
    LET keep == (TRUNCATE_CHARS * 2) \div 5
        head == TakeChars(tIn, keep)
        tail == DropChars(tIn, TextLen(tIn) - keep)
    IN  tStage \in {"once", "twice"}
        /\ CountTokens(tIn) > MAX_TOKENS
        /\ TextLen(tIn) > TRUNCATE_CHARS
        => /\ TextLen(tOut) = keep + ElisionMarkerLen + keep
           /\ TakeChars(tOut, keep) = head
           /\ TakeChars(DropChars(tOut, keep), ElisionMarkerLen) = ElisionMarker
           /\ DropChars(tOut, keep + ElisionMarkerLen) = tail
           /\ KindsIn(tOut) = KindsIn(head) \cup KindsIn(tail) \cup {MarkerKind}

\* a text whose middle is of a kind of its own has been split: the kinds of
\* its head and of its tail are in the result, the kind of its middle is not
C11_Witness ==
    /\ tStage = "once"
    /\ Len(tIn) = 3
    /\ TruncateBranch(tIn) = "split"
    /\ tIn[1].k \in KindsIn(tOut)
    /\ tIn[3].k \in KindsIn(tOut)
    /\ tIn[2].k \notin KindsIn(tOut)
    /\ MarkerKind \in KindsIn(tOut)

(***************************************************************************)
(* Specification SpecExtract: one call of extract_from_markdown            *)
(***************************************************************************)
\* texts on either side of the token ceiling and of the character budget
ExtractTexts ==
    {EmptyText, P(24000), P(60000), P(60004), D(15000), D(15001),
     D(60000), D(60004), B(60004), Concat(P(40000), D(24000))}

InitExtract ==
    /\ xText \in ExtractTexts
    /\ xUrl \in Urls
    /\ xStage = "idle"
    /\ xRequest = None
    /\ xModel = None
    /\ xResult = None
    /\ TruncIdle
    /\ PipeIdle
    /\ BrowserIdle

\* the call runs to `await self.structured_llm.ainvoke(messages)`
ExtractCall ==
    /\ xStage = "idle"
    /\ xRequest' = Some(ExtractRequest(xText, xUrl))
    /\ xStage' = "awaiting"
    /\ UNCHANGED <<xText, xUrl, xModel, xResult>>
    /\ UNCHANGED truncVars
    /\ UNCHANGED <<pipeVars, browserVars>>

\* the model call finishes and the call returns or raises
ExtractFinish ==
    /\ xStage = "awaiting"
    /\ \E model \in ModelOutcomes(ModelUrls) :
          /\ xModel' = Some(model)
          /\ xResult' = Some(ExtractResult(model, xUrl))
    /\ xStage' = "done"
    /\ UNCHANGED <<xText, xUrl, xRequest>>
    /\ UNCHANGED truncVars
    /\ UNCHANGED <<pipeVars, browserVars>>

NextExtract == ExtractCall \/ ExtractFinish

SpecExtract == InitExtract /\ [][NextExtract]_vars

\* C7: whenever extract_from_markdown returns a record, the url of that
\* record is the source_url of the call, whatever url the model returned.
C7_ReturnedUrlIsSourceUrl ==
    xStage = "done" /\ xResult[1].kind = "return"
        => xResult[1].val[1].url = xUrl

\* the model returned a record with another url and the call returned a
\* record with the source url
C7_Witness ==
    /\ xStage = "done"
    /\ xModel[1].kind = "record"
    /\ xModel[1].rec[1].url # xUrl
    /\ xResult[1].kind = "return"
    /\ xResult[1].val[1].url = xUrl

\* C10: the text extract_from_markdown places in the model request has a
\* token count of at most MAX_TOKENS, for every input text.
C10_RequestWithinTokenBudget ==
    xStage \in {"awaiting", "done"}
        => CountTokens(xRequest[1].processed_content) <= MAX_TOKENS

\* C21: a call of extract_from_markdown in which the model call did not
\* return a record raises; when the model call raised a schema-validation
\* failure the call raises the validation error, and when it raised a
\* failure of the model service (network, auth, rate limit, upstream) the
\* call raises the API error.
C21_FailureCategories ==
    xStage = "done" /\ xModel[1].kind # "record"
        => /\ xResult[1].kind = "raise"
           /\ xModel[1].kind = "raise"
              /\ xModel[1].exc[1].cls = "ValidationError"
              => /\ xResult[1].exc[1].cls = "ValueError"
                 /\ HasFragments(xResult[1].exc[1].msg,
                             <<"Pydantic validation error during extraction: ">>)
           /\ xModel[1].kind = "raise"
              /\ xModel[1].exc[1].cls = "APIError"
              => /\ xResult[1].exc[1].cls = "ValueError"
                 /\ HasFragments(xResult[1].exc[1].msg, <<"OpenAI API error: ">>)

\* C22: a record returned by extract_from_markdown is the record the model
\* returned with every field but url as the model gave it; a model record
\* with no pricing tier is returned with no pricing tier.
C22_OnlyUrlChanges ==
    xStage = "done" /\ xResult[1].kind = "return"
        => /\ xModel[1].kind = "record"
           /\ [xResult[1].val[1] EXCEPT !.url = xModel[1].rec[1].url]
                  = xModel[1].rec[1]
           /\ xModel[1].rec[1].pricing_tiers = <<>>
                  => xResult[1].val[1].pricing_tiers = <<>>

\* the model returned a record without tiers under another url, and the
\* call returned it without tiers under the source url
C22_Witness ==
    /\ xStage = "done"
    /\ xModel[1].kind = "record"
    /\ xModel[1].rec[1].pricing_tiers = <<>>
    /\ xModel[1].rec[1].core_features = <<"Feature 1">>
    /\ xModel[1].rec[1].url = "/pricing"
    /\ xResult[1].kind = "return"
    /\ xResult[1].val[1].pricing_tiers = <<>>
    /\ xResult[1].val[1].core_features = <<"Feature 1">>
    /\ xResult[1].val[1].url = xUrl

(***************************************************************************)
(* BrowserService, awaited operation by awaited operation                  *)
(* (infrastructure/browser/crawler.py)                                     *)
(*                                                                         *)
(* A task is an asyncio task that calls start, close or                    *)
(* fetch_page_content.  The code of a call runs without interruption from  *)
(* one await to the next; task[t].pc names the awaited operation the call  *)
(* is suspended in, and one action per awaited operation resumes the call  *)
(* with what the operation did: it returned or it raised.                  *)
(***************************************************************************)
\* BrowserService.__init__: playwright, browser and context are None
NewHandles == [playwright |-> None, browser |-> None, context |-> None]

\* nothing has been launched, close() has not been called; made counts the
\* launches and creations that succeeded, closes the calls of close(); logs
\* is what the name logs is in the working directory
NewEnv ==
    [drivers |-> {}, browsers |-> {}, contexts |-> {}, pages |-> {},
     closes |-> 0,
     made |-> [driver |-> 0, browser |-> 0, context |-> 0, page |-> 0],
     logs |-> "dir"]

\* what the name logs is in the working directory of the process: a
\* directory, or nothing yet, and then mkdir returns; or a regular file
LogsStates == {"dir", "file"}

\* an environment in which nothing has been launched
NewEnvs == {[NewEnv EXCEPT !.logs = l] : l \in LogsStates}

\* Path("logs").mkdir(parents=True, exist_ok=True) returns
\* (crawler.py:172, 228); it raises FileExistsError when logs is a file
MkdirLogs(e) == e.logs = "dir"

\* str(e) of the FileExistsError of mkdir
FileExistsText == "[Errno 17] File exists: 'logs'"

OpenBrowserIds(e) == {b.id : b \in e.browsers}
OpenContextIds(e) == {c.id : c \in e.contexts}
OpenPageIds(e) == {q.id : q \in e.pages}

\* what the launches and creations do to the environment
LaunchDriver(e) ==
    [e EXCEPT !.made.driver = @ + 1, !.drivers = @ \cup {e.made.driver + 1}]
LaunchBrowser(e, driver) ==
    [e EXCEPT !.made.browser = @ + 1,
              !.browsers = @ \cup {[id |-> e.made.browser + 1, driver |-> driver]}]
CreateContext(e, browser) ==
    [e EXCEPT !.made.context = @ + 1,
              !.contexts = @ \cup {[id |-> e.made.context + 1, browser |-> browser]}]
CreatePage(e, context) ==
    [e EXCEPT !.made.page = @ + 1,
              !.pages = @ \cup {[id |-> e.made.page + 1, context |-> context,
                                  closeFailed |-> FALSE]}]

\* what the closes do: a context takes its pages with it, a browser its
\* contexts, the driver its browsers
ClosePage(e, page) == [e EXCEPT !.pages = {q \in @ : q.id # page}]

\* page.close() raised: the page stays open, and that is remembered of it
ClosePageFailed(e, page) ==
    [e EXCEPT !.pages = {IF q.id = page THEN [q EXCEPT !.closeFailed = TRUE]
                         ELSE q : q \in @}]
CloseContext(e, context) ==
    [e EXCEPT !.contexts = {c \in @ : c.id # context},
              !.pages = {q \in @ : q.context # context}]
CloseBrowser(e, browser) ==
    LET gone == {c.id : c \in {x \in e.contexts : x.browser = browser}}
    IN  [e EXCEPT !.browsers = {b \in @ : b.id # browser},
                  !.contexts = {c \in @ : c.id \notin gone},
                  !.pages = {q \in @ : q.context \notin gone}]
StopDriver(e, driver) ==
    LET goneB == {b.id : b \in {x \in e.browsers : x.driver = driver}}
        goneC == {c.id : c \in {x \in e.contexts : x.browser \in goneB}}
    IN  [e EXCEPT !.drivers = @ \ {driver},
                  !.browsers = {b \in @ : b.id \notin goneB},
                  !.contexts = {c \in @ : c.id \notin goneC},
                  !.pages = {q \in @ : q.context \notin goneC}]

\* the handles of close(), listed last to first
CloseOrder_Reversed == <<"playwright", "browser", "context">>

\* the handles close() looks at, in the order it looks at them
\* (crawler.py:79, 82, 85)
CloseOrder == <<"context", "browser", "playwright">>

\* the awaited teardown operation of each handle
TeardownOp(h) ==
    CASE h = "context" -> "context.close"
      [] h = "browser" -> "browser.close"
      [] h = "playwright" -> "playwright.stop"

TeardownIn(e, h, id) ==
    CASE h = "context" -> CloseContext(e, id)
      [] h = "browser" -> CloseBrowser(e, id)
      [] h = "playwright" -> StopDriver(e, id)

\* `if self.context:`, `if self.browser:`, `if self.playwright:`: a handle
\* is None or an object, and the objects are all truthy
HandlePresent(s, h) == IsSet(s[h])

\* a close() that forgets the assignment of None after a teardown
ClearHandle_Keeps(s, h) == s

\* self.<handle> = None (crawler.py:81, 84, 87)
ClearHandle(s, h) == [s EXCEPT ![h] = None]

\* a start() that launches whatever the handle holds
StartNeeded_Always(s) == TRUE

\* `if self.playwright is None` (crawler.py:65)
StartNeeded(s) == s.playwright = None

\* max_scrolls, the default of _auto_scroll
max_scrolls == 10

\* a loop that goes on until the height stops changing
LoopGoesOn_Unbounded(i) == TRUE

\* `for i in range(max_scrolls)` (crawler.py:136)
LoopGoesOn(i) == i < max_scrolls

\* a finally block that leaves the page alone
NeedsFinalClose_Never(page, e) == FALSE

\* `if page and not page.is_closed()` (crawler.py:275)
NeedsFinalClose(page, e) == IsSet(page) /\ page[1] \in OpenPageIds(e)

\* handlers that never take the second image
ErrorScreenshotWanted_Never(page) == FALSE

\* `if page:` of the two handlers (crawler.py:255, 266)
ErrorScreenshotWanted(page) == IsSet(page)

\* the try around the capture of the loaded page (crawler.py:233-238): the
\* exception that leaves it, None when the handler caught it
SuccessScreenshotHandlers(x) ==
    IF CaughtByExceptException(x.cls) THEN None ELSE Some(x)

\* logs/success_<safe_url>_<timestamp>.png and logs/error_<...>.png: the
\* directory, the prefix and the url the name is made from
ScreenshotPath(prefix, url) == [dir |-> "logs", prefix |-> prefix, url |-> url]

\* _save_error_screenshot: the path, or None when mkdir or the capture
\* raised (crawler.py:170-183)
SaveErrorScreenshot(ok, url) ==
    IF ok THEN Some(ScreenshotPath("error", url)) ELSE None

\* the markup of a page: tags and the words between them
HtmlTags == {"<html>", "</html>", "<h1>", "</h1>", "<p>", "</p>"}
Htmls ==
    {<<"<html>", "<h1>", "Pricing", "</h1>", "<p>", "Pro", "$8", "</p>", "</html>">>,
     <<"<html>", "</html>">>}

IsWord(x) == x \notin HtmlTags

\* self._html_converter.handle: the words of the markup, its tags dropped,
\* and the newline the converter ends every output with; the text it
\* returns is never empty
Html2Text(h) == SelectSeq(h, IsWord) \o <<"\n">>

\* ScrapingResult with its three fields
FullScrapingResult(raw_html, clean_text, screenshot_path) ==
    [raw_html |-> raw_html, clean_text |-> clean_text,
     screenshot_path |-> screenshot_path]

\* a call that returned None
ReturnedNone == [kind |-> "return", val |-> None, exc |-> None]

\* str(e) of what the browser raises
OpFailText == "Connection closed while reading from the driver"
GotoTimeoutText == "Timeout 30000ms exceeded."
GotoErrorText == "net::ERR_NAME_NOT_RESOLVED"

\* an awaited operation that raised
OpRaised(text) == Exc("PlaywrightError", <<text>>)

\* what chromium.launch can raise: the launch fails, or it does not come up
\* within its own timeout
LaunchTimeoutText == "Timeout 180000ms exceeded."
LaunchFailures ==
    {OpRaised(LaunchFailText), Exc("PlaywrightTimeoutError", <<LaunchTimeoutText>>)}

\* what page.goto can raise
GotoFailures ==
    {Exc("PlaywrightTimeoutError", <<GotoTimeoutText>>), OpRaised(GotoErrorText)}

\* an awaited operation and what became of it, as a call records it
Ev(op, id, ok) == [op |-> op, id |-> id, ok |-> ok]

\* a task that is in no call
IdleTask ==
    [pc |-> "idle", op |-> "none", url |-> "", on |-> None, j |-> 0,
     context |-> None, page |-> None, cause |-> None,
     i |-> 0, scrolls |-> 0, height |-> 0, previous_height |-> 0,
     reads |-> <<>>,
     raw_html |-> None, clean_text |-> None, screenshot_path |-> None,
     result |-> None, ops |-> <<>>, pre |-> NewHandles, caller |-> "none",
     saves |-> 0]

BeginCall(op, url, s) == [IdleTask EXCEPT !.op = op, !.url = url, !.pre = s]

\* `await browser_service.start()` of node_scrape (graph.py:107)
ScrapeCall(url, s) == [BeginCall("start", url, s) EXCEPT !.caller = "node_scrape"]

\* `await browser_service.fetch_page_content(url)` of node_scrape, made by
\* the task whose start() call tk has returned (graph.py:111)
ScrapeFetchCall(tk, s) ==
    [BeginCall("fetch", tk.url, s) EXCEPT !.caller = "node_scrape"]

\* `await _browser_service.close()` of cleanup_resources (graph.py:63)
CleanupCall(s) == [BeginCall("close", "", s) EXCEPT !.caller = "cleanup_resources"]

Did(tk, op, id, ok) == [tk EXCEPT !.ops = Append(@, Ev(op, id, ok))]

\* ---- the code between two awaits, as what it makes of the call record tk
\* ---- given the handles s and the environment e

\* the finally block of fetch_page_content up to its await (crawler.py:273-277)
EnterFinally(tk, e) ==
    IF NeedsFinalClose(tk.page, e)
    THEN [tk EXCEPT !.pc = "final_close", !.on = tk.page]
    ELSE [tk EXCEPT !.pc = "done"]

\* the handlers of fetch_page_content up to their await (crawler.py:251-271),
\* entered with the exception x raised in the try block: with a page they
\* call _save_error_screenshot, which is suspended in page.screenshot when
\* its mkdir returns, and returns None at once when its mkdir raises
\* (crawler.py:170-183); saves counts these calls
EnterExcept(tk, x, e) ==
    LET caught == [tk EXCEPT !.cause = Some(x),
                             !.result = Some(FetchHandlers(x, tk.url))]
        called == [caught EXCEPT !.saves = @ + 1]
    IN  IF ErrorScreenshotWanted(tk.page)
        THEN IF MkdirLogs(e)
             THEN [called EXCEPT !.pc = "err_screenshot", !.on = tk.page]
             ELSE EnterFinally(
                      [called EXCEPT !.screenshot_path =
                                         SaveErrorScreenshot(FALSE, tk.url)],
                      e)
        ELSE EnterFinally([caught EXCEPT !.screenshot_path = None], e)

\* _create_context from `self.browser.new_context(` on (crawler.py:107-108)
NewContextCall(tk, s, e) ==
    IF s.browser = None
    THEN EnterExcept(tk, Exc("AttributeError", <<NoBrowserText>>), e)
    ELSE [tk EXCEPT !.pc = "new_context", !.on = s.browser]

\* the start() of _create_context up to its first await (crawler.py:104-105,
\* 65-66), or to new_context when it returns at once
LazyStart(tk, s, e) ==
    IF StartNeeded(s)
    THEN [tk EXCEPT !.pc = "start_driver"]
    ELSE NewContextCall(tk, s, e)

\* fetch_page_content up to its first await: _create_context (crawler.py:104-105)
CreateContextEntry(tk, s, e) ==
    IF s.browser = None THEN LazyStart(tk, s, e) ELSE NewContextCall(tk, s, e)

\* start() has returned: to its caller, and node_scrape goes on to call
\* fetch_page_content (graph.py:107-111), or to _create_context
AfterStart(tk, s, e) ==
    IF tk.op = "start"
    THEN IF tk.caller = "node_scrape"
         THEN CreateContextEntry(ScrapeFetchCall(tk, s), s, e)
         ELSE [tk EXCEPT !.pc = "done", !.result = Some(ReturnedNone)]
    ELSE NewContextCall(tk, s, e)

\* start() has raised x
StartRaised(tk, x, e) ==
    IF tk.op = "start"
    THEN [tk EXCEPT !.pc = "done", !.result = Some(Raised(x.cls, x.msg))]
    ELSE EnterExcept(tk, x, e)

\* start() up to its first await (crawler.py:65-66)
StartEntry(tk, s, e) ==
    IF StartNeeded(s)
    THEN [tk EXCEPT !.pc = "start_driver"]
    ELSE AfterStart(tk, s, e)

\* the awaits of one turn of the loop of _auto_scroll: the first read of
\* the height, the scroll to the bottom, the pause, the second read
\* (crawler.py:138, 141, 144, 147)
ScrollPcs == {"scroll_read", "scroll_down", "scroll_pause", "scroll_reread"}

\* by how much a page grows while the loop pauses
PageGrowth == {0, 1}

\* the head of the loop of _auto_scroll, up to the first read of the turn
ScrollLoopHead(tk) ==
    IF LoopGoesOn(tk.i)
    THEN [tk EXCEPT !.pc = "scroll_read"]
    ELSE [tk EXCEPT !.pc = "scroll_top"]

\* close() from its j-th handle on, up to its next await (crawler.py:79-88)
RECURSIVE CloseFrom(_, _, _)
CloseFrom(tk, s, j) ==
    IF j > Len(CloseOrder)
    THEN [tk EXCEPT !.pc = "done", !.result = Some(ReturnedNone)]
    ELSE IF HandlePresent(s, CloseOrder[j])
         THEN [tk EXCEPT !.pc = "teardown", !.j = j, !.on = s[CloseOrder[j]]]
         ELSE CloseFrom(tk, s, j + 1)

\* a loop without its break
HeightsSettled_Never(previous_height, new_height) == FALSE

\* `if previous_height == new_height: break` (crawler.py:150-152)
HeightsSettled(previous_height, new_height) == previous_height = new_height

(***************************************************************************)
(* Specifications SpecBrowser, SpecConc and SpecConcClose: calls of one     *)
(* BrowserService                                                          *)
(*   SpecBrowser    one task makes its calls one after the other           *)
(*   SpecConc       two tasks share the service; their calls interleave at *)
(*                  the awaits                                             *)
(*   SpecConcClose  as SpecConc, and when the interleaved calls are over a *)
(*                  task awaits close() while the other makes no call      *)
(***************************************************************************)
otherVars == <<truncVars, extractVars, pipeVars>>

InitBrowserWith(n, cap, hcap) ==
    /\ bsvc = NewHandles
    /\ env \in NewEnvs
    /\ task = [t \in 1..n |-> IdleTask]
    /\ calls = [t \in 1..n |-> 0]
    /\ callCap = cap
    /\ faultsLeft = None
    /\ heightCap = hcap
    /\ TruncIdle
    /\ ExtractIdle
    /\ PipeIdle

InitBrowser == InitBrowserWith(1, MaxCalls, MaxPageHeight)

\* the url the two tasks fetch
ConcUrl == "https://example.com"

InitConc == InitBrowserWith(2, MaxConcCalls, MaxConcHeight)

\* an awaited operation raises: when the behaviour has a number of such
\* failures, one of them is used up
Fault ==
    /\ IF faultsLeft = None THEN TRUE ELSE faultsLeft[1] > 0
    /\ faultsLeft' = IF faultsLeft = None THEN None ELSE Some(faultsLeft[1] - 1)

\* an awaited operation returns
NoFault == UNCHANGED faultsLeft

\* a task is between two calls and may make one more
CanCall(t) == task[t].pc \in {"idle", "done"} /\ calls[t] < callCap

\* ---- the calls, each up to its first await

\* await service.start()
CallStart ==
    \E t \in DOMAIN task :
        /\ CanCall(t)
        /\ task' = [task EXCEPT ![t] = StartEntry(BeginCall("start", "", bsvc), bsvc, env)]
        /\ calls' = [calls EXCEPT ![t] = @ + 1]
        /\ UNCHANGED <<bsvc, env, callCap, faultsLeft, heightCap, otherVars>>

\* await service.close()
CallClose ==
    \E t \in DOMAIN task :
        /\ CanCall(t)
        /\ task' = [task EXCEPT ![t] = CloseFrom(BeginCall("close", "", bsvc), bsvc, 1)]
        /\ env' = [env EXCEPT !.closes = @ + 1]
        /\ calls' = [calls EXCEPT ![t] = @ + 1]
        /\ UNCHANGED <<bsvc, callCap, faultsLeft, heightCap, otherVars>>

\* await service.close() by a task, once the calls that interleave are all
\* made and over: no other call is in progress while this close() runs,
\* and the handles it finds are those the interleaved calls left
CallCloseAlone ==
    \E t \in DOMAIN task :
        /\ \A u \in DOMAIN task : task[u].pc \in {"idle", "done"} /\ calls[u] >= callCap
        /\ calls[t] = callCap
        /\ task' = [task EXCEPT ![t] = CloseFrom(BeginCall("close", "", bsvc), bsvc, 1)]
        /\ env' = [env EXCEPT !.closes = @ + 1]
        /\ calls' = [calls EXCEPT ![t] = @ + 1]
        /\ UNCHANGED <<bsvc, callCap, faultsLeft, heightCap, otherVars>>

\* await service.fetch_page_content(url)
CallFetchOf(urls) ==
    \E t \in DOMAIN task, url \in urls :
        /\ CanCall(t)
        /\ task' = [task EXCEPT ![t] =
                       CreateContextEntry(BeginCall("fetch", url, bsvc), bsvc, env)]
        /\ calls' = [calls EXCEPT ![t] = @ + 1]
        /\ UNCHANGED <<bsvc, env, callCap, faultsLeft, heightCap, otherVars>>

\* a call of fetch_page_content by the one task, on any url
CallFetch == CallFetchOf(Urls)

\* a call of fetch_page_content by one of the two tasks that share a service
CallFetchShared == CallFetchOf({ConcUrl})

\* ---- the awaited operations, each resuming the call up to its next await

\* self.playwright = await async_playwright().start() (crawler.py:66)
StartDriver ==
    \E t \in DOMAIN task :
        LET tk == task[t]
            id == env.made.driver + 1
        IN  /\ tk.pc = "start_driver"
            /\ \/ /\ NoFault
                  /\ env' = LaunchDriver(env)
                  /\ bsvc' = [bsvc EXCEPT !.playwright = Some(id)]
                  /\ task' = [task EXCEPT ![t] =
                                 [Did(tk, "driver.start", id, TRUE)
                                     EXCEPT !.pc = "start_launch", !.on = Some(id)]]
               \/ /\ Fault
                  /\ task' = [task EXCEPT ![t] =
                                 StartRaised(Did(tk, "driver.start", 0, FALSE),
                                             OpRaised(DriverFailText), env)]
                  /\ UNCHANGED <<bsvc, env>>
            /\ UNCHANGED <<calls, callCap, heightCap, otherVars>>

\* self.browser = await self.playwright.chromium.launch(...) (crawler.py:67)
StartLaunch ==
    \E t \in DOMAIN task :
        LET tk == task[t]
            id == env.made.browser + 1
            e2 == LaunchBrowser(env, tk.on[1])
            s2 == [bsvc EXCEPT !.browser = Some(id)]
        IN  /\ tk.pc = "start_launch"
            /\ \/ /\ NoFault
                  /\ tk.on[1] \in env.drivers
                  /\ env' = e2
                  /\ bsvc' = s2
                  /\ task' = [task EXCEPT ![t] =
                                 AfterStart(Did(tk, "browser.launch", id, TRUE), s2, e2)]
               \/ /\ Fault
                  /\ \E x \in LaunchFailures :
                        task' = [task EXCEPT ![t] =
                                    StartRaised(Did(tk, "browser.launch", 0, FALSE),
                                                x, env)]
                  /\ UNCHANGED <<bsvc, env>>
            /\ UNCHANGED <<calls, callCap, heightCap, otherVars>>

\* context = await self.browser.new_context(...) (crawler.py:108)
NewContext ==
    \E t \in DOMAIN task :
        LET tk == task[t]
            id == env.made.context + 1
        IN  /\ tk.pc = "new_context"
            /\ \/ /\ NoFault
                  /\ tk.on[1] \in OpenBrowserIds(env)
                  /\ env' = CreateContext(env, tk.on[1])
                  /\ task' = [task EXCEPT ![t] =
                                 [Did(tk, "new_context", id, TRUE)
                                     EXCEPT !.pc = "init_script", !.on = Some(id)]]
               \/ /\ Fault
                  /\ task' = [task EXCEPT ![t] =
                                 EnterExcept(Did(tk, "new_context", 0, FALSE),
                                             OpRaised(OpFailText), env)]
                  /\ UNCHANGED env
            /\ UNCHANGED <<bsvc, calls, callCap, heightCap, otherVars>>

\* await context.add_init_script(...), then `return context` and
\* `self.context = context` (crawler.py:116, 125, 203-207)
InitScript ==
    \E t \in DOMAIN task :
        LET tk == task[t]
        IN  /\ tk.pc = "init_script"
            /\ \/ /\ NoFault
                  /\ tk.on[1] \in OpenContextIds(env)
                  /\ bsvc' = [bsvc EXCEPT !.context = tk.on]
                  /\ task' = [task EXCEPT ![t] =
                                 [Did(tk, "add_init_script", tk.on[1], TRUE)
                                     EXCEPT !.pc = "new_page", !.context = tk.on]]
               \/ /\ Fault
                  /\ task' = [task EXCEPT ![t] =
                                 EnterExcept(Did(tk, "add_init_script", tk.on[1], FALSE),
                                             OpRaised(OpFailText), env)]
                  /\ UNCHANGED bsvc
            /\ UNCHANGED <<env, calls, callCap, heightCap, otherVars>>

\* page = await context.new_page() (crawler.py:207)
NewPage ==
    \E t \in DOMAIN task :
        LET tk == task[t]
            id == env.made.page + 1
        IN  /\ tk.pc = "new_page"
            /\ \/ /\ NoFault
                  /\ tk.context[1] \in OpenContextIds(env)
                  /\ env' = CreatePage(env, tk.context[1])
                  /\ task' = [task EXCEPT ![t] =
                                 [Did(tk, "new_page", id, TRUE)
                                     EXCEPT !.pc = "goto", !.page = Some(id),
                                            !.on = Some(id)]]
               \/ /\ Fault
                  /\ task' = [task EXCEPT ![t] =
                                 EnterExcept(Did(tk, "new_page", 0, FALSE),
                                             OpRaised(OpFailText), env)]
                  /\ UNCHANGED env
            /\ UNCHANGED <<bsvc, calls, callCap, heightCap, otherVars>>

\* await page.goto(url, ...), then _auto_scroll up to its first await
\* (crawler.py:212-215, 136-138)
PageGoto ==
    \E t \in DOMAIN task :
        LET tk == task[t]
        IN  /\ tk.pc = "goto"
            /\ \/ /\ NoFault
                  /\ tk.page[1] \in OpenPageIds(env)
                  /\ task' = [task EXCEPT ![t] =
                                 ScrollLoopHead([Did(tk, "goto", tk.page[1], TRUE)
                                                    EXCEPT !.i = 0, !.height = 1])]
               \/ /\ Fault
                  /\ \E x \in GotoFailures :
                        task' = [task EXCEPT ![t] =
                            EnterExcept(Did(tk, "goto", tk.page[1], FALSE), x, env)]
            /\ UNCHANGED <<bsvc, env, calls, callCap, heightCap, otherVars>>

\* previous_height = await page.evaluate("document.body.scrollHeight"), then
\* the call of the scroll to the bottom (crawler.py:138, 141)
ScrollRead ==
    \E t \in DOMAIN task :
        LET tk == task[t]
        IN  /\ tk.pc = "scroll_read"
            /\ \/ /\ NoFault
                  /\ tk.page[1] \in OpenPageIds(env)
                  /\ task' = [task EXCEPT ![t] =
                                 [tk EXCEPT !.pc = "scroll_down",
                                            !.previous_height = tk.height,
                                            !.scrolls = @ + 1]]
               \/ /\ Fault
                  /\ task' = [task EXCEPT ![t] =
                                 EnterExcept(Did(tk, "evaluate", tk.page[1], FALSE),
                                             OpRaised(OpFailText), env)]
            /\ UNCHANGED <<bsvc, env, calls, callCap, heightCap, otherVars>>

\* await page.evaluate("window.scrollTo(0, document.body.scrollHeight)")
\* (crawler.py:141)
ScrollDown ==
    \E t \in DOMAIN task :
        LET tk == task[t]
        IN  /\ tk.pc = "scroll_down"
            /\ \/ /\ NoFault
                  /\ tk.page[1] \in OpenPageIds(env)
                  /\ task' = [task EXCEPT ![t] = [tk EXCEPT !.pc = "scroll_pause"]]
               \/ /\ Fault
                  /\ task' = [task EXCEPT ![t] =
                                 EnterExcept(Did(tk, "evaluate", tk.page[1], FALSE),
                                             OpRaised(OpFailText), env)]
            /\ UNCHANGED <<bsvc, env, calls, callCap, heightCap, otherVars>>

\* await asyncio.sleep(scroll_pause_time) (crawler.py:144): while the loop
\* pauses, the page loads what the scroll asked for and grows, or does not
ScrollPause ==
    \E t \in DOMAIN task :
        LET tk == task[t]
        IN  /\ tk.pc = "scroll_pause"
            /\ \E grown \in PageGrowth :
                  /\ tk.height + grown <= heightCap
                  /\ grown > 0 => tk.page[1] \in OpenPageIds(env)
                  /\ task' = [task EXCEPT ![t] =
                                 [tk EXCEPT !.pc = "scroll_reread",
                                            !.height = @ + grown]]
            /\ UNCHANGED <<bsvc, env, calls, callCap, faultsLeft, heightCap, otherVars>>

\* new_height = await page.evaluate("document.body.scrollHeight"), then the
\* comparison and the head of the loop (crawler.py:147-152, 136)
ScrollReread ==
    \E t \in DOMAIN task :
        LET tk == task[t]
            new_height == tk.height
            read == [tk EXCEPT !.reads = Append(@,
                                   [previous_height |-> tk.previous_height,
                                    new_height |-> new_height])]
        IN  /\ tk.pc = "scroll_reread"
            /\ \/ /\ NoFault
                  /\ tk.page[1] \in OpenPageIds(env)
                  /\ task' = [task EXCEPT ![t] =
                         IF HeightsSettled(tk.previous_height, new_height)
                         THEN [read EXCEPT !.pc = "scroll_top"]
                         ELSE ScrollLoopHead([read EXCEPT !.i = @ + 1])]
               \/ /\ Fault
                  /\ task' = [task EXCEPT ![t] =
                                 EnterExcept(Did(tk, "evaluate", tk.page[1], FALSE),
                                             OpRaised(OpFailText), env)]
            /\ UNCHANGED <<bsvc, env, calls, callCap, heightCap, otherVars>>

\* await page.evaluate("window.scrollTo(0, 0)") (crawler.py:155)
ScrollTop ==
    \E t \in DOMAIN task :
        LET tk == task[t]
        IN  /\ tk.pc = "scroll_top"
            /\ \/ /\ NoFault
                  /\ tk.page[1] \in OpenPageIds(env)
                  /\ task' = [task EXCEPT ![t] =
                                 [Did(tk, "scroll_top", tk.page[1], TRUE)
                                     EXCEPT !.pc = "top_pause"]]
               \/ /\ Fault
                  /\ task' = [task EXCEPT ![t] =
                                 EnterExcept(Did(tk, "scroll_top", tk.page[1], FALSE),
                                             OpRaised(OpFailText), env)]
            /\ UNCHANGED <<bsvc, env, calls, callCap, heightCap, otherVars>>

\* await asyncio.sleep(0.5), the last await of _auto_scroll (crawler.py:156)
TopPause ==
    \E t \in DOMAIN task :
        /\ task[t].pc = "top_pause"
        /\ task' = [task EXCEPT ![t].pc = "settle_pause"]
        /\ UNCHANGED <<bsvc, env, calls, callCap, faultsLeft, heightCap, otherVars>>

\* await asyncio.sleep(2) of fetch_page_content (crawler.py:218)
SettlePause ==
    \E t \in DOMAIN task :
        /\ task[t].pc = "settle_pause"
        /\ task' = [task EXCEPT ![t].pc = "content"]
        /\ UNCHANGED <<bsvc, env, calls, callCap, faultsLeft, heightCap, otherVars>>

\* raw_html = await page.content(), the conversion, the mkdir of logs and
\* the path of the image (crawler.py:221-231); when the mkdir raises, the
\* general handler is entered with raw_html and clean_text bound
PageContent ==
    \E t \in DOMAIN task :
        LET tk == task[t]
        IN  /\ tk.pc = "content"
            /\ \/ /\ NoFault
                  /\ tk.page[1] \in OpenPageIds(env)
                  /\ \E h \in Htmls :
                        LET read == [Did(tk, "content", tk.page[1], TRUE)
                                        EXCEPT !.raw_html = Some(h),
                                               !.clean_text = Some(Html2Text(h))]
                        IN  task' = [task EXCEPT ![t] =
                               IF MkdirLogs(env)
                               THEN [read EXCEPT
                                        !.pc = "screenshot",
                                        !.screenshot_path =
                                            Some(ScreenshotPath("success", tk.url))]
                               ELSE EnterExcept(
                                        read,
                                        Exc("FileExistsError", <<FileExistsText>>),
                                        env)]
               \/ /\ Fault
                  /\ task' = [task EXCEPT ![t] =
                                 EnterExcept(Did(tk, "content", tk.page[1], FALSE),
                                             OpRaised(OpFailText), env)]
            /\ UNCHANGED <<bsvc, env, calls, callCap, heightCap, otherVars>>

\* await page.screenshot(...) of the loaded page, in its own try
\* (crawler.py:233-238)
PageScreenshot ==
    \E t \in DOMAIN task :
        LET tk == task[t]
            x == OpRaised(OpFailText)
            left == SuccessScreenshotHandlers(x)
            failed == Did(tk, "screenshot", tk.page[1], FALSE)
        IN  /\ tk.pc = "screenshot"
            /\ \/ /\ NoFault
                  /\ tk.page[1] \in OpenPageIds(env)
                  /\ task' = [task EXCEPT ![t] =
                                 [Did(tk, "screenshot", tk.page[1], TRUE)
                                     EXCEPT !.pc = "page_close"]]
               \/ /\ Fault
                  /\ task' = [task EXCEPT ![t] =
                                 IF left = None
                                 THEN [failed EXCEPT !.pc = "page_close",
                                                     !.screenshot_path = None]
                                 ELSE EnterExcept(failed, left[1], env)]
            /\ UNCHANGED <<bsvc, env, calls, callCap, heightCap, otherVars>>

\* await page.close() of the try block, then the return (crawler.py:241-249)
PageClose ==
    \E t \in DOMAIN task :
        LET tk == task[t]
            e2 == ClosePage(env, tk.page[1])
        IN  /\ tk.pc = "page_close"
            /\ \/ /\ NoFault
                  /\ env' = e2
                  /\ task' = [task EXCEPT ![t] =
                        EnterFinally(
                            [Did(tk, "page.close", tk.page[1], TRUE)
                                EXCEPT !.result =
                                    Some(Returned(FullScrapingResult(
                                        tk.raw_html[1], tk.clean_text[1],
                                        tk.screenshot_path)))],
                            e2)]
               \/ /\ Fault
                  /\ env' = ClosePageFailed(env, tk.page[1])
                  /\ task' = [task EXCEPT ![t] =
                                 EnterExcept(Did(tk, "page.close", tk.page[1], FALSE),
                                             OpRaised(OpFailText),
                                             ClosePageFailed(env, tk.page[1]))]
            /\ UNCHANGED <<bsvc, calls, callCap, heightCap, otherVars>>

\* screenshot_path = await self._save_error_screenshot(page, url), then the
\* raise (crawler.py:256-260, 267-271, 170-183)
ErrorScreenshot ==
    \E t \in DOMAIN task :
        LET tk == task[t]
        IN  /\ tk.pc = "err_screenshot"
            /\ \E ok \in BOOLEAN :
                  /\ IF ok THEN NoFault ELSE Fault
                  /\ ok => tk.page[1] \in OpenPageIds(env)
                  /\ task' = [task EXCEPT ![t] =
                        EnterFinally(
                            [Did(tk, "error_screenshot", tk.page[1], ok)
                                EXCEPT !.screenshot_path =
                                    SaveErrorScreenshot(ok, tk.url)],
                            env)]
            /\ UNCHANGED <<bsvc, env, calls, callCap, heightCap, otherVars>>

\* await page.close() of the finally block, in its own try
\* (crawler.py:276-279)
FinalClose ==
    \E t \in DOMAIN task :
        LET tk == task[t]
        IN  /\ tk.pc = "final_close"
            /\ \E ok \in BOOLEAN :
                  /\ IF ok THEN NoFault ELSE Fault
                  /\ env' = IF ok THEN ClosePage(env, tk.page[1])
                            ELSE ClosePageFailed(env, tk.page[1])
                  /\ task' = [task EXCEPT ![t] =
                                 [Did(tk, "page.close", tk.page[1], ok)
                                     EXCEPT !.pc = "done"]]
            /\ UNCHANGED <<bsvc, calls, callCap, heightCap, otherVars>>

\* an awaited teardown of close(), then the assignment of None and close()
\* up to its next await (crawler.py:80-88)
Teardown ==
    \E t \in DOMAIN task :
        LET tk == task[t]
            h == CloseOrder[tk.j]
            s2 == ClearHandle(bsvc, h)
        IN  /\ tk.pc = "teardown"
            /\ \/ /\ NoFault
                  /\ env' = TeardownIn(env, h, tk.on[1])
                  /\ bsvc' = s2
                  /\ task' = [task EXCEPT ![t] =
                                 CloseFrom(Did(tk, TeardownOp(h), tk.on[1], TRUE),
                                           s2, tk.j + 1)]
               \/ /\ Fault
                  /\ task' = [task EXCEPT ![t] =
                                 [Did(tk, TeardownOp(h), tk.on[1], FALSE)
                                     EXCEPT !.pc = "done",
                                            !.result = Some(Raised("PlaywrightError",
                                                            <<OpFailText>>))]]
                  /\ UNCHANGED <<bsvc, env>>
            /\ UNCHANGED <<calls, callCap, heightCap, otherVars>>

NextBrowser ==
    \/ CallStart
    \/ CallClose
    \/ CallFetch
    \/ StartDriver
    \/ StartLaunch
    \/ NewContext
    \/ InitScript
    \/ NewPage
    \/ PageGoto
    \/ ScrollRead
    \/ ScrollDown
    \/ ScrollPause
    \/ ScrollReread
    \/ ScrollTop
    \/ TopPause
    \/ SettlePause
    \/ PageContent
    \/ PageScreenshot
    \/ PageClose
    \/ ErrorScreenshot
    \/ FinalClose
    \/ Teardown

\* the same steps, taken by either of the two tasks, on one url
NextConc ==
    \/ CallStart
    \/ CallClose
    \/ CallFetchShared
    \/ StartDriver
    \/ StartLaunch
    \/ NewContext
    \/ InitScript
    \/ NewPage
    \/ PageGoto
    \/ ScrollRead
    \/ ScrollDown
    \/ ScrollPause
    \/ ScrollReread
    \/ ScrollTop
    \/ TopPause
    \/ SettlePause
    \/ PageContent
    \/ PageScreenshot
    \/ PageClose
    \/ ErrorScreenshot
    \/ FinalClose
    \/ Teardown

SpecBrowser == InitBrowser /\ [][NextBrowser]_vars

SpecConc == InitConc /\ [][NextConc]_vars

SpecConcClose == InitConc /\ [][NextConc \/ CallCloseAlone]_vars

\* the awaited evaluations and the pause of the scroll loop return or raise
\* in the end
SpecBrowserFair ==
    /\ SpecBrowser
    /\ WF_vars(ScrollRead)
    /\ WF_vars(ScrollDown)
    /\ WF_vars(ScrollPause)
    /\ WF_vars(ScrollReread)

(***************************************************************************)
(* Properties of the browser service                                       *)
(***************************************************************************)
\* the events of the call of task t whose operation is op
OpsOf(t, op) == SelectSeq(task[t].ops, LAMBDA ev : ev.op = op)

\* C12: the scroll loop of a fetch makes at most 10 scroll-to-bottom turns,
\* whatever the heights read are, also when the page grows on every turn, and
\* a call that is in the loop leaves it.
C12_ScrollTerminatesWithinTen ==
    /\ [](\A t \in DOMAIN task : task[t].scrolls <= 10)
    /\ (task[1].pc \in ScrollPcs) ~> (task[1].pc \notin ScrollPcs)

\* the page grew on every one of ten turns and the loop has ended
C12_Witness ==
    /\ task[1].op = "fetch"
    /\ task[1].pc = "scroll_top"
    /\ task[1].scrolls = 10
    /\ task[1].height = 11

\* C13: a fetch call that created a page has called close on that page by
\* the time it returns or raises, on the success path, after a timeout and
\* after any other error; the pages still open after the call are those
\* whose close raised.
C13_FetchClosesItsPage ==
    \A t \in DOMAIN task :
        task[t].pc = "done" /\ task[t].op = "fetch" /\ IsSet(task[t].page)
        => /\ \E k \in DOMAIN task[t].ops :
                 /\ task[t].ops[k].op = "page.close"
                 /\ task[t].ops[k].id = task[t].page[1]
           /\ \A q \in env.pages : q.closeFailed

\* a fetch whose navigation timed out has raised, its page closed by the
\* finally block
C13_Witness ==
    /\ task[1].pc = "done"
    /\ task[1].op = "fetch"
    /\ IsSet(task[1].page)
    /\ task[1].cause = Some(Exc("PlaywrightTimeoutError", <<GotoTimeoutText>>))
    /\ task[1].result[1].kind = "raise"
    /\ Len(OpsOf(1, "page.close")) = 1
    /\ OpsOf(1, "page.close")[1].ok
    /\ env.pages = {}

\* no call is in progress
Quiescent == \A t \in DOMAIN task : task[t].pc \in {"idle", "done"}

\* C14: after any sequence of fetch calls on one service, successful or
\* failed, at most one context created by the service is still open.
C14_AtMostOneOpenContext ==
    Quiescent => Cardinality(env.contexts) <= 1

\* C16: when two tasks share one service, then under every interleaving of
\* their start and fetch calls at the awaits, at most one driver and at most
\* one browser are launched before close() is called.
C16_OneLaunchBeforeClose ==
    env.closes = 0 => env.made.driver <= 1 /\ env.made.browser <= 1

\* C15: start() on a service that is already started launches no second
\* driver and no second browser and leaves the handles as they were.
C15_StartIdempotent ==
    \A t \in DOMAIN task :
        /\ task[t].op = "start"
        /\ IsSet(task[t].pre.playwright)
        /\ IsSet(task[t].pre.browser)
        => /\ task[t].pc = "done"
           /\ task[t].ops = <<>>
           /\ task[t].result = Some(ReturnedNone)
           /\ bsvc = task[t].pre

\* start() was called on a service whose driver and browser were up, and
\* has returned: one driver and one browser have been launched in all
C15_Witness ==
    /\ task[1].op = "start"
    /\ task[1].pc = "done"
    /\ IsSet(task[1].pre.playwright)
    /\ IsSet(task[1].pre.browser)
    /\ calls[1] >= 2
    /\ env.made.driver = 1
    /\ env.made.browser = 1

\* the handles that were present when the call of task t began, in the
\* order context, browser, driver
PresentAtCall(t) ==
    SelectSeq(<<"context", "browser", "playwright">>,
              LAMBDA h : IsSet(task[t].pre[h]))

\* the call of task t is a close() during which no other call was in
\* progress
ClosedAlone(t) == task[t].op = "close" /\ calls[t] > callCap

\* task t has closed alone a service on which exactly the handles hs were
\* present, and close() has returned
ClosedAloneOn(t, hs) ==
    /\ ClosedAlone(t)
    /\ task[t].pc = "done"
    /\ PresentAtCall(t) = hs
    /\ task[t].result = Some(ReturnedNone)

\* C17: a close() tears down the handles that are present when it is called,
\* in the order context, browser, driver, each on the object the handle
\* held, and skips the absent ones, for each of the eight combinations of
\* present and absent handles that interleaved calls of start(),
\* fetch_page_content and close() leave behind; it raises only when a
\* teardown raised.  A close() with which other calls interleave awaits its
\* teardowns in that order as well.
C17_CloseOrder ==
    \A t \in DOMAIN task :
        task[t].op = "close"
        => LET ops == task[t].ops
               present == PresentAtCall(t)
           IN  /\ \A k \in DOMAIN ops :
                     /\ \E j \in DOMAIN CloseOrder : ops[k].op = TeardownOp(CloseOrder[j])
                     /\ k < Len(ops) => ops[k].ok
                     /\ \A l \in DOMAIN ops :
                           k < l =>
                              \E i, j \in DOMAIN CloseOrder :
                                 /\ i < j
                                 /\ ops[k].op = TeardownOp(CloseOrder[i])
                                 /\ ops[l].op = TeardownOp(CloseOrder[j])
               /\ task[t].pc = "done"
                  => IF \A k \in DOMAIN ops : ops[k].ok
                     THEN task[t].result = Some(ReturnedNone)
                     ELSE task[t].result[1].kind = "raise"
               /\ ClosedAlone(t)
                  => /\ Len(ops) <= Len(present)
                     /\ \A k \in DOMAIN ops :
                           /\ ops[k].op = TeardownOp(present[k])
                           /\ ops[k].id = task[t].pre[present[k]][1]
                     /\ task[t].pc = "done" /\ (\A k \in DOMAIN ops : ops[k].ok)
                        => /\ Len(ops) = Len(present)
                           /\ bsvc = NewHandles

\* a close() found a service with a context and neither browser nor driver:
\* an earlier close() had cleared the context handle and was awaiting the
\* end of the browser when a fetch assigned its new context.  The close()
\* has awaited the one teardown, of that context, and returned
C17_Witness ==
    /\ ClosedAloneOn(1, <<"context">>)
    /\ task[1].pre.browser = None
    /\ task[1].pre.playwright = None
    /\ Len(task[1].ops) = 1
    /\ task[1].ops[1].op = "context.close"
    /\ task[1].ops[1].id = task[1].pre.context[1]
    /\ task[1].ops[1].ok
    /\ bsvc = NewHandles

\* C18: after a close() that returned normally the three handles are None,
\* and a close() on such a service awaits no teardown, returns and leaves
\* the handles None.
C18_CloseIdempotent ==
    \A t \in DOMAIN task :
        task[t].op = "close"
        => /\ task[t].pc = "done" /\ task[t].result = Some(ReturnedNone)
              => bsvc = NewHandles
           /\ task[t].pre = NewHandles
              => /\ task[t].pc = "done"
                 /\ task[t].ops = <<>>
                 /\ task[t].result = Some(ReturnedNone)
                 /\ bsvc = NewHandles

\* a service that was started has been closed, and closed again
C18_Witness ==
    /\ task[1].op = "close"
    /\ task[1].pc = "done"
    /\ task[1].pre = NewHandles
    /\ task[1].ops = <<>>
    /\ env.closes = 2
    /\ env.made.browser = 1
    /\ env.browsers = {}
    /\ env.drivers = {}

\* C19: a fetch that fails after its page was created makes exactly one
\* attempt at the error image, a call of _save_error_screenshot, after the
\* failure and before it raises; the capture that call awaits when its
\* mkdir returned comes right after the failure and only page.close comes
\* after it; if the attempt fails, at its mkdir or at its capture, the
\* fetch raises all the same, and what it raises is an Exception whose
\* message contains the url and the text of the failure that was caught.
C19_OneErrorScreenshot ==
    \A t \in DOMAIN task :
        /\ task[t].op = "fetch"
        /\ task[t].pc = "done"
        /\ IsSet(task[t].page)
        /\ IsSet(task[t].cause)
        => LET ops == task[t].ops
               raised == task[t].result[1]
           IN  /\ task[t].saves = 1
               /\ Len(OpsOf(t, "error_screenshot")) = IF MkdirLogs(env) THEN 1 ELSE 0
               /\ \A k \in DOMAIN ops :
                     ops[k].op = "error_screenshot"
                     => /\ k > 1
                        /\ ~ops[k - 1].ok
                        /\ \A m \in (k + 1)..Len(ops) : ops[m].op = "page.close"
               /\ (~MkdirLogs(env) => task[t].screenshot_path = None)
               /\ raised.kind = "raise"
               /\ raised.exc[1].cls = "Exception"
               /\ HasFragments(raised.exc[1].msg, <<task[t].url>>)
               /\ HasFragments(raised.exc[1].msg, task[t].cause[1].msg)

\* the navigation failed where logs is a file: the one attempt at the error
\* image failed at its mkdir, no capture was awaited, and the fetch has
\* raised the navigation failure
C19_Witness ==
    /\ task[1].op = "fetch"
    /\ task[1].pc = "done"
    /\ ~MkdirLogs(env)
    /\ task[1].cause = Some(OpRaised(GotoErrorText))
    /\ task[1].saves = 1
    /\ OpsOf(1, "error_screenshot") = <<>>
    /\ task[1].ops[Len(task[1].ops)] = Ev("page.close", task[1].page[1], TRUE)
    /\ task[1].screenshot_path = None
    /\ task[1].result[1].kind = "raise"
    /\ HasFragments(task[1].result[1].exc[1].msg, <<GotoErrorText>>)

\* C20: a fetch whose page was loaded and read, and in which nothing failed
\* but the capture of the image of that page, be it the making of the
\* directory of the image or the screenshot, returns a result with the
\* markup, the text converted from it and no screenshot path.
C20_ScreenshotFailureNotFatal ==
    \A t \in DOMAIN task :
        /\ task[t].op = "fetch"
        /\ task[t].pc = "done"
        /\ \E k \in DOMAIN task[t].ops :
              task[t].ops[k].op = "content" /\ task[t].ops[k].ok
        /\ \A m \in DOMAIN task[t].ops :
              ~task[t].ops[m].ok => task[t].ops[m].op = "screenshot"
        /\ \/ ~MkdirLogs(env)
           \/ \E k \in DOMAIN task[t].ops :
                 task[t].ops[k].op = "screenshot" /\ ~task[t].ops[k].ok
        => /\ task[t].result[1].kind = "return"
           /\ task[t].result[1].val[1].raw_html = task[t].raw_html[1]
           /\ task[t].result[1].val[1].clean_text
                  = Html2Text(task[t].raw_html[1])
           /\ task[t].result[1].val[1].screenshot_path = None

\* C25: the scroll loop makes no turn after one in which the height read
\* before the scroll equals the height read after the pause, and goes on
\* otherwise until 10 turns are made; once the loop is left, by either way,
\* the page is scrolled to the top once, and the markup is read after that.
C25_ScrollStopsAndReturnsToTop ==
    \A t \in DOMAIN task :
        task[t].op = "fetch"
        => LET reads == task[t].reads
               ops == task[t].ops
               settled(k) == reads[k].previous_height = reads[k].new_height
           IN  /\ \A k \in DOMAIN reads : k < Len(reads) => ~settled(k)
               /\ task[t].pc \in ScrollPcs
                  => Len(reads) < 10 /\ (reads # <<>> => ~settled(Len(reads)))
               /\ task[t].pc = "scroll_top"
                  => reads # <<>> /\ (settled(Len(reads)) \/ Len(reads) = 10)
               /\ Len(OpsOf(t, "scroll_top")) <= 1
               /\ \A k \in DOMAIN ops :
                     /\ ops[k].op = "scroll_top"
                        => reads # <<>> /\ (settled(Len(reads)) \/ Len(reads) = 10)
                     /\ ops[k].op = "content"
                        => k > 1 /\ ops[k - 1] = Ev("scroll_top", ops[k].id, TRUE)

\* the page grew on two turns and not on the third; the loop was left, the
\* page scrolled to the top and the markup read
C25_Witness ==
    /\ task[1].op = "fetch"
    /\ task[1].pc = "done"
    /\ task[1].result[1].kind = "return"
    /\ Len(task[1].reads) = 3
    /\ task[1].reads[2].previous_height # task[1].reads[2].new_height
    /\ task[1].reads[3].previous_height = task[1].reads[3].new_height
    /\ Len(OpsOf(1, "scroll_top")) = 1
    /\ Len(OpsOf(1, "content")) = 1

\* the category a failed fetch is reported in: the head of its message
TimeoutCategory(t) ==
    task[t].result[1].exc[1].msg[1] = "Timeout while fetching "
GeneralCategory(t) ==
    task[t].result[1].exc[1].msg[1] = "Error fetching content from "

\* a fetch has ended by raising
FetchFailed(t) ==
    /\ task[t].op = "fetch"
    /\ task[t].pc = "done"
    /\ task[t].result[1].kind = "raise"

\* C26 as stated: a failed fetch is reported as a timeout when its
\* navigation timed out, and as a general fetch error in every other case.
C26_TimeoutIffNavigationTimeout ==
    \A t \in DOMAIN task :
        FetchFailed(t)
        => LET navigationTimedOut ==
                   /\ task[t].cause[1].cls = "PlaywrightTimeoutError"
                   /\ \E k \in DOMAIN task[t].ops :
                         task[t].ops[k].op = "goto" /\ ~task[t].ops[k].ok
           IN  /\ TimeoutCategory(t) <=> navigationTimedOut
               /\ GeneralCategory(t) <=> ~navigationTimedOut

\* C26: a failed fetch is reported in exactly one of the two categories: as
\* a timeout when what was caught is of the timeout class of the browser
\* library, whichever awaited operation raised it, and as a general fetch
\* error when it is of any other class.
C26_TimeoutIffTimeoutClass ==
    \A t \in DOMAIN task :
        FetchFailed(t)
        => /\ TimeoutCategory(t) # GeneralCategory(t)
           /\ TimeoutCategory(t)
                 <=> task[t].cause[1].cls = "PlaywrightTimeoutError"

\* a fetch on a service that was not started has raised: the launch of the
\* browser timed out, no page was created, and the report is a timeout
C26_Witness ==
    /\ FetchFailed(1)
    /\ task[1].cause = Some(Exc("PlaywrightTimeoutError", <<LaunchTimeoutText>>))
    /\ task[1].page = None
    /\ TimeoutCategory(1)
    /\ ~GeneralCategory(1)

\* C29: a fetch on a service whose browser handle is None, because nothing
\* was ever started on it or because a browser was launched and close() was
\* called since, starts the driver and launches the browser before it asks
\* for a context, and does not fail for want of a browser.
C29_FetchAfterCloseStartsBrowser ==
    \A t \in DOMAIN task :
        /\ task[t].op = "fetch"
        /\ task[t].pc = "done"
        /\ task[t].pre.browser = None
        /\ \/ task[t].pre = NewHandles
           \/ env.closes >= 1 /\ env.made.browser >= 1
        => LET ops == task[t].ops
           IN  /\ Len(ops) >= 1
               /\ ops[1].op = "driver.start"
               /\ (ops[1].ok => Len(ops) >= 2 /\ ops[2].op = "browser.launch")
               /\ \A k \in DOMAIN ops :
                     ops[k].op = "new_context" => k = 3 /\ ops[2].ok
               /\ task[t].cause # Some(Exc("AttributeError", <<NoBrowserText>>))

\* C30: whenever no call is executing on the service, the driver handle is
\* set if and only if the browser handle is set.
C30_DriverIffBrowser ==
    Quiescent => (IsSet(bsvc.playwright) <=> IsSet(bsvc.browser))

(***************************************************************************)
(* Specification Spec: runs of graph.ainvoke on the module's one           *)
(* BrowserService.  Each call of graph.ainvoke is an asyncio task of its   *)
(* own (server.py awaits graph.ainvoke per request), so two runs           *)
(* interleave at the awaits of the service calls; cli.py makes its runs    *)
(* one after the other and awaits cleanup_resources when they are done.    *)
(* Run r makes its service calls in task r.  A run that is awaited alone   *)
(* may also be one on a stubbed fetch service, as in tests/test_graph.py.  *)
(* The extractor of the module is made by the first run that needs it.     *)
(***************************************************************************)
StaleProduct ==
    [product_name |-> "Test Product", url |-> "https://example.com",
     pricing_tiers |-> <<>>, core_features |-> <<>>, summary |-> "Test summary"]

\* content a caller passes in
StaleContent == <<"Stale", "content">>

\* the states a caller may hand to graph.ainvoke: cli.py and server.py pass
\* None in the three optional fields, tests/test_graph.py also a state with
\* content
InputStates ==
    {AgentState(u, sc, pr, er) :
        u \in Urls,
        sc \in {None, Some(StaleContent)},
        pr \in {None, Some(StaleProduct)},
        er \in {None, Some(<<"stale error">>)}}

\* the states server.py and cli.py hand to graph.ainvoke
\* (server.py:53-59, cli.py:26-32)
ServerStates == {AgentState(u, None, None, None) : u \in Urls}

\* a slot in which no run was started yet
BlankRun ==
    [state |-> None, input |-> None, pc |-> "idle", visited |-> <<>>,
     log |-> <<>>, scrapeOut |-> None, gateSaw |-> None, scrapeExc |-> None,
     extractExc |-> None, extractArgs |-> None, propagated |-> None,
     fetchRet |-> None, extractRet |-> None]

\* a run at the call of graph.ainvoke on input state st
BeginRun(st) == [BlankRun EXCEPT !.state = st, !.input = st, !.pc = "invoke"]

\* the task in which the caller awaits cleanup_resources
CallerTask == Cardinality(RunSlots) + 1

Init ==
    /\ run = [r \in RunSlots |-> BlankRun]
    /\ runs = 0
    /\ browser_service = FALSE
    /\ extractor = FALSE
    /\ bsvc = NewHandles
    /\ env \in NewEnvs
    /\ task = [t \in 1..CallerTask |-> IdleTask]
    /\ calls = [t \in 1..CallerTask |-> 0]
    /\ callCap = MaxPipelineRuns
    /\ faultsLeft = Some(IF MkdirLogs(env) THEN MaxFaults ELSE MaxFaults - 1)
    /\ heightCap = MaxConcHeight
    /\ TruncIdle
    /\ ExtractIdle

\* the engine can move the run to target
CanGoto(rn, target) == target \in Nodes => Len(rn.visited) < MaxNodeVisits

\* the engine moves the run to target: a node is entered, or the run ends
Goto(rn, target) ==
    [rn EXCEPT !.pc = target,
               !.visited = IF target \in Nodes THEN Append(@, target) ELSE @]

\* graph.ainvoke has been called in the slot and has not returned
InProgress(rn) == rn.pc \notin {"idle", END}

\* the url of the request that is in progress when another one arrives: no
\* code of the pipeline or of the services tells one url from another
FirstUrl == "https://example.com"

\* a caller awaits graph.ainvoke(initial_state), in the first slot that is
\* free and while no cleanup is executing.  The runs that are in progress
\* at a time are those of server.py, on states with the three optional
\* fields None; a state with other values is that of a caller that awaits
\* its runs one by one.
NewRun ==
    \E r \in RunSlots, st \in InputStates :
        /\ ~InProgress(run[r])
        /\ \A q \in RunSlots : q < r => InProgress(run[q])
        /\ runs < MaxPipelineRuns
        /\ task[CallerTask].pc = "idle"
        /\ \A q \in RunSlots :
              InProgress(run[q])
              => /\ st \in ServerStates
                 /\ run[q].input \in ServerStates
                 /\ run[q].input.url = FirstUrl
        /\ run' = [run EXCEPT ![r] = BeginRun(st)]
        /\ runs' = runs + 1
        /\ UNCHANGED <<browser_service, extractor, browserVars, truncVars, extractVars>>

\* graph.ainvoke enters the entry point
Invoke ==
    \E r \in RunSlots :
        /\ run[r].pc = "invoke"
        /\ CanGoto(run[r], EntryPoint)
        /\ run' = [run EXCEPT ![r] = Goto(run[r], EntryPoint)]
        /\ UNCHANGED <<runs, browser_service, extractor, browserVars, truncVars, extractVars>>

\* node_scrape ends in its except branch with exception e, or e leaves the
\* node when the handler does not catch it
ScrapeRaises(rn, e) ==
    IF CaughtByExceptException(e.cls)
    THEN [rn EXCEPT !.state = NodeScrapeFailure(rn.state, e),
                    !.scrapeOut = Some(NodeScrapeFailure(rn.state, e)),
                    !.scrapeExc = Some(e),
                    !.pc = "gate"]
    ELSE [rn EXCEPT !.pc = "raised", !.propagated = Some(e)]

\* node_scrape from the return of its service call to its own return
\* (graph.py:111-137): tk is the call, of start() when start() raised and of
\* fetch_page_content otherwise
NodeScrapeReturn(rn, tk) ==
    LET res == tk.result[1]
        fetched == [rn EXCEPT !.fetchRet = Some(res)]
    IN  IF tk.op = "start"
        THEN ScrapeRaises([rn EXCEPT !.log = @ \o <<"start_call", "start_raise">>],
                          res.exc[1])
        ELSE IF res.kind = "return"
        THEN [fetched EXCEPT
                 !.log = @ \o <<"start_call", "start_return",
                                "fetch_call", "fetch_return">>,
                 !.state = NodeScrapeSuccess(rn.state, res.val[1].clean_text),
                 !.scrapeOut =
                     Some(NodeScrapeSuccess(rn.state, res.val[1].clean_text)),
                 !.pc = "gate"]
        ELSE ScrapeRaises([fetched EXCEPT
                              !.log = @ \o <<"start_call", "start_return",
                                             "fetch_call", "fetch_raise">>],
                          res.exc[1])

\* node_scrape up to the first await at which it is suspended
\* (graph.py:100-111): _get_browser_service makes the service when there is
\* none, start() is called and, when it returns at once, fetch_page_content
ScrapeStart ==
    \E r \in RunSlots :
        /\ run[r].pc = "scrape"
        /\ task' = [task EXCEPT ![r] =
                       StartEntry(ScrapeCall(run[r].state.url, bsvc), bsvc, env)]
        /\ browser_service' = TRUE
        /\ run' = [run EXCEPT ![r].pc = "scrape_await"]
        /\ UNCHANGED <<runs, extractor, bsvc, env, calls, callCap, faultsLeft,
                       heightCap, truncVars, extractVars>>

\* the service call of node_scrape has returned or raised and node_scrape
\* returns (graph.py:111-137)
ScrapeReturn ==
    \E r \in RunSlots :
        /\ run[r].pc = "scrape_await"
        /\ task[r].pc = "done"
        /\ run' = [run EXCEPT ![r] = NodeScrapeReturn(run[r], task[r])]
        /\ task' = [task EXCEPT ![r] = IdleTask]
        /\ UNCHANGED <<runs, browser_service, extractor, bsvc, env, calls, callCap,
                       faultsLeft, heightCap, truncVars, extractVars>>

\* the text of the result of the stubbed fetch (tests/test_graph.py:67)
StubText == <<"# Test Product", "\n", "\n", "Test content">>

\* str(e) of what the stubs of fetch_page_content raise
\* (tests/test_graph.py:141, 206)
StubFailureTexts == {"Network error", "Scraping failed"}

\* what a stub of fetch_page_content does (tests/test_graph.py:65-69, 140-142,
\* 205-207): it returns a ScrapingResult, whose clean_text is any str, the
\* empty one included (models.py:71-87), or it raises its side effect
StubOutcomes ==
    {Returned(FullScrapingResult(<<"<html>", "<body>", "Test", "</body>", "</html>">>,
                                 txt, None)) :
        txt \in {StubText, <<>>}}
    \cup {Raised("Exception", <<m>>) : m \in StubFailureTexts}

\* node_scrape on a stubbed service (graph.py:100-137): tests/test_graph.py
\* (80-86, 136-143, 200-207) patches _get_browser_service with a mock whose
\* start and fetch_page_content are AsyncMocks, so node_scrape is not
\* suspended and the module's service is neither made nor used; it returns
\* through its success branch or, when the stub raises, through its except
\* branch.  The caller awaits this run alone.
ScrapeStubbed ==
    \E r \in RunSlots, res \in StubOutcomes :
        /\ run[r].pc = "scrape"
        /\ \A q \in RunSlots : q # r => ~InProgress(run[q])
        /\ run' = [run EXCEPT ![r] =
                      NodeScrapeReturn(
                          run[r],
                          [IdleTask EXCEPT !.op = "fetch",
                                           !.result = Some(res)])]
        /\ UNCHANGED <<runs, browser_service, extractor, browserVars, truncVars,
                       extractVars>>

\* the conditional edge after the scrape node: should_continue, then the
\* target of its label
Gate ==
    \E r \in RunSlots :
        LET rn == run[r]
            target == ConditionalTarget(ShouldContinue(rn.state))
        IN  /\ rn.pc = "gate"
            /\ CanGoto(rn, target)
            /\ run' = [run EXCEPT ![r] =
                          Goto([rn EXCEPT !.gateSaw = Some(rn.state),
                                          !.log = Append(@, "gate")],
                               target)]
            /\ UNCHANGED <<runs, browser_service, extractor, browserVars, truncVars,
                           extractVars>>

\* str(e) of what ChatOpenAI(**llm_kwargs) raises when no api key is
\* configured (extractor.py:46)
ExtractorInitText ==
    "The api_key client option must be set either by passing api_key to the client or by setting the OPENAI_API_KEY environment variable"

\* CompetitorExtractor(...) raises in its __init__ (extractor.py:36-58): the
\* client constructor at line 46, or the tokenizer lookups at 52-56, which
\* catch KeyError only
ExtractorInitFailure == Exc("OpenAIError", <<ExtractorInitText>>)

\* node_extract ends in its except branch with exception e raised inside its
\* try (graph.py:171-202), logging event ev, or e leaves the node when the
\* handler does not catch it
ExtractRaises(rn, e, ev) ==
    IF CaughtByExceptException(e.cls)
    THEN [rn EXCEPT !.log = Append(@, ev),
                    !.state = NodeExtractFailure(rn.state, e),
                    !.extractExc = Some(e)]
    ELSE [rn EXCEPT !.log = Append(@, ev),
                    !.pc = "raised",
                    !.propagated = Some(e)]

\* node_extract at `await extractor.extract_from_markdown(...)`
\* (graph.py:175-178)
NodeExtractCall(rn) ==
    [rn EXCEPT
        !.extractArgs =
            Some([markdown_content |-> rn.state.scraped_content[1],
                  source_url |-> rn.state.url]),
        !.log = Append(@, "extract_call"),
        !.pc = "extract_llm"]

\* node_extract up to `await extractor.extract_from_markdown(...)`
\* (graph.py:156-178), or to its return: when the content is missing
\* (160-167), or when _get_extractor() raises inside the try (172, 193-202).
\* _get_extractor (graph.py:69-82) returns the module's extractor, making it
\* when there is none; when the constructor raises there is still none.
ExtractEnter ==
    \E r \in RunSlots :
        LET rn == run[r]
            failed == ExtractRaises(rn, ExtractorInitFailure, "extractor_raise")
        IN  /\ rn.pc = "extract"
            /\ IF ~Truthy(rn.state.scraped_content)
               THEN /\ CanGoto(rn, EdgeTarget("extract"))
                    /\ run' = [run EXCEPT ![r] =
                                  Goto([rn EXCEPT !.state = NodeExtractMissing(rn.state)],
                                       EdgeTarget("extract"))]
                    /\ UNCHANGED <<extractor, faultsLeft>>
               ELSE IF extractor
               THEN /\ run' = [run EXCEPT ![r] = NodeExtractCall(rn)]
                    /\ UNCHANGED <<extractor, faultsLeft>>
               ELSE \/ /\ NoFault
                       /\ extractor' = TRUE
                       /\ run' = [run EXCEPT ![r] = NodeExtractCall(rn)]
                    \/ /\ Fault
                       /\ UNCHANGED extractor
                       /\ IF failed.pc = "raised"
                          THEN run' = [run EXCEPT ![r] = failed]
                          ELSE /\ CanGoto(failed, EdgeTarget("extract"))
                               /\ run' = [run EXCEPT ![r] =
                                             Goto(failed, EdgeTarget("extract"))]
            /\ UNCHANGED <<runs, browser_service, bsvc, env, task, calls, callCap,
                           heightCap, truncVars, extractVars>>

\* node_extract from the return of extract_from_markdown with result res to
\* its own return (graph.py:180-202)
NodeExtractReturn(rn, res) ==
    LET got == [rn EXCEPT !.extractRet = Some(res)]
    IN  IF res.kind = "return"
        THEN [got EXCEPT !.log = Append(@, "extract_return"),
                         !.state = NodeExtractSuccess(rn.state, res.val[1])]
        ELSE ExtractRaises(got, res.exc[1], "extract_raise")

\* what the model call does in a run of the pipeline: it returns a record,
\* with tiers or without, or None, or it raises an exception of each
\* category of the handlers of extract_from_markdown
PipelineModelOutcomes ==
    {ModelReturns(rec) :
        rec \in {x \in ProductRecords(ModelUrls \ Urls) : x.core_features = <<>>}}
    \cup {ModelReturnsNone,
          ModelRaises("ValidationError", ValidationText),
          ModelRaises("APIError", AuthText),
          ModelRaises("Exception", "")}

\* extract_from_markdown finishes and node_extract returns (graph.py:180-202)
ExtractReturn ==
    \E r \in RunSlots :
        /\ run[r].pc = "extract_llm"
        /\ \E model \in PipelineModelOutcomes :
              LET back == NodeExtractReturn(
                              run[r],
                              ExtractResult(model, run[r].extractArgs[1].source_url))
              IN  IF back.pc = "raised"
                  THEN run' = [run EXCEPT ![r] = back]
                  ELSE /\ CanGoto(back, EdgeTarget("extract"))
                       /\ run' = [run EXCEPT ![r] = Goto(back, EdgeTarget("extract"))]
        /\ UNCHANGED <<runs, browser_service, extractor, browserVars, truncVars, extractVars>>

\* cleanup_resources up to the first await of close() (graph.py:60-63),
\* awaited by a caller while no run is in progress
Cleanup ==
    /\ \A r \in RunSlots : ~InProgress(run[r])
    /\ browser_service
    /\ task[CallerTask].pc = "idle"
    /\ calls[CallerTask] < callCap
    /\ task' = [task EXCEPT ![CallerTask] =
                   CloseFrom(CleanupCall(bsvc), bsvc, 1)]
    /\ env' = [env EXCEPT !.closes = @ + 1]
    /\ calls' = [calls EXCEPT ![CallerTask] = @ + 1]
    /\ UNCHANGED <<run, runs, browser_service, extractor, bsvc, callCap, faultsLeft,
                   heightCap, truncVars, extractVars>>

\* close() has returned and the service is dropped, or it has raised and
\* the service is kept as close() left it (graph.py:63-66)
CleanupReturn ==
    /\ task[CallerTask].pc = "done"
    /\ task[CallerTask].caller = "cleanup_resources"
    /\ browser_service' = (task[CallerTask].result[1].kind = "raise")
    /\ task' = [task EXCEPT ![CallerTask] = IdleTask]
    /\ UNCHANGED <<run, runs, extractor, bsvc, env, calls, callCap, faultsLeft,
                   heightCap, truncVars, extractVars>>

\* the steps in which a run goes on: those of the engine and the nodes, and
\* the awaited operations of the service calls
RunStep ==
    \/ Invoke
    \/ ScrapeStart
    \/ ScrapeStubbed
    \/ ScrapeReturn
    \/ Gate
    \/ ExtractEnter
    \/ ExtractReturn
    \/ StartDriver
    \/ StartLaunch
    \/ NewContext
    \/ InitScript
    \/ NewPage
    \/ PageGoto
    \/ ScrollRead
    \/ ScrollDown
    \/ ScrollPause
    \/ ScrollReread
    \/ ScrollTop
    \/ TopPause
    \/ SettlePause
    \/ PageContent
    \/ PageScreenshot
    \/ PageClose
    \/ ErrorScreenshot
    \/ FinalClose

Next ==
    \/ NewRun
    \/ RunStep
    \/ Cleanup
    \/ Teardown
    \/ CleanupReturn

Spec == Init /\ [][Next]_vars

\* the engine takes its steps, and every awaited operation of start,
\* fetch_page_content and extract_from_markdown returns or raises in the
\* end; the caller is free never to start another run
SpecPipelineFair == Spec /\ WF_vars(RunStep)

(***************************************************************************)
(* Properties of the pipeline                                              *)
(***************************************************************************)
\* the service calls node_scrape of run r has made and not yet logged
InFlight(r) ==
    IF run[r].pc # "scrape_await" THEN <<>>
    ELSE IF task[r].op = "start" THEN <<"start_call">>
    ELSE <<"start_call", "start_return", "fetch_call">>

\* the service calls and gate evaluations of run r so far
RunLog(r) == run[r].log \o InFlight(r)

\* number of occurrences of event ev in run r
Count(r, ev) == Cardinality({i \in DOMAIN RunLog(r) : RunLog(r)[i] = ev})
Logged(r, ev) == \E i \in DOMAIN RunLog(r) : RunLog(r)[i] = ev

\* run r started from a state with product and error unset
FreshInput(r) == ~IsSet(run[r].input.product) /\ ~IsSet(run[r].input.error)

\* run r has been started
Started(r) == run[r].pc # "idle"

\* the extraction of run r raised inside the try of node_extract: the call
\* of extract_from_markdown, or the making of the extractor before it
ExtractionRaised(r) == Logged(r, "extract_raise") \/ Logged(r, "extractor_raise")

\* C1: a run started with product and error unset ends with exactly one of
\* product and error set; when the fetch returned and the extraction raised,
\* in the model call or in the making of the extractor, product is absent
\* and error is set.
C1_ExactlyOneOfProductAndError ==
    \A r \in RunSlots :
        run[r].pc = END /\ FreshInput(r) =>
            /\ IsSet(run[r].state.product) # Truthy(run[r].state.error)
            /\ IsSet(run[r].state.product) # IsSet(run[r].state.error)
            /\ (Logged(r, "fetch_return") /\ ExtractionRaised(r)
                   => ~IsSet(run[r].state.product) /\ Truthy(run[r].state.error))

\* a run from a fresh state in which the fetch returned and the extraction
\* raised has ended with an error and no product
C1_Witness ==
    /\ run[1].pc = END
    /\ FreshInput(1)
    /\ Logged(1, "fetch_return")
    /\ Logged(1, "extract_raise")
    /\ ~IsSet(run[1].state.product)
    /\ Truthy(run[1].state.error)

\* C2: the state node_scrape returns has exactly one of scraped_content and
\* error set, for every input state: scraped_content set and error None
\* when the fetch returned, error set and scraped_content None when start()
\* or the fetch raised.
C2_ScrapeSetsExactlyOne ==
    \A r \in RunSlots :
        IsSet(run[r].scrapeOut) =>
            LET out == run[r].scrapeOut[1]
            IN  /\ IsSet(out.scraped_content) # IsSet(out.error)
                /\ (Logged(r, "fetch_return")
                       => IsSet(out.scraped_content) /\ ~IsSet(out.error))
                /\ (IsSet(run[r].scrapeExc)
                       => Truthy(out.error) /\ ~IsSet(out.scraped_content))

\* node_scrape failed on an input state that carried content, and returned
\* a state with the error set and the content cleared
C2_Witness ==
    /\ run[1].pc = "gate"
    /\ IsSet(run[1].input.scraped_content)
    /\ IsSet(run[1].scrapeExc)
    /\ IsSet(run[1].scrapeOut)
    /\ ~IsSet(run[1].scrapeOut[1].scraped_content)
    /\ Truthy(run[1].scrapeOut[1].error)

\* C3: in a run whose fetch stage failed, extract_from_markdown is never
\* called, the only node entered is scrape, the run ends with the gate as
\* its last step, and the final error contains the message of the failure.
C3_FetchFailureSkipsExtraction ==
    \A r \in RunSlots :
        IsSet(run[r].scrapeExc) =>
            /\ ~Logged(r, "extract_call")
            /\ run[r].pc \in {"gate", END}
            /\ (run[r].pc = END =>
                  /\ run[r].visited = <<"scrape">>
                  /\ run[r].log[Len(run[r].log)] = "gate"
                  /\ Truthy(run[r].state.error)
                  /\ HasFragments(run[r].state.error[1], StrOf(run[r].scrapeExc[1])))

\* a run was started while the start() of another was awaiting the launch
\* of the browser: its own start() returned at once, its fetch found no
\* browser and raised, and it has ended after the gate with the message of
\* that failure in its error and no extraction call, while no operation of
\* the browser has raised and the other run has its text
C3_Witness ==
    /\ run[2].pc = END
    /\ Logged(2, "fetch_raise")
    /\ IsSet(run[2].scrapeExc)
    /\ HasFragments(StrOf(run[2].scrapeExc[1]), <<NoBrowserText>>)
    /\ run[2].state.error =
          Some(<<"Failed to scrape URL ", run[2].input.url, ": ",
                 "Error fetching content from ", run[2].input.url, ": ",
                 NoBrowserText>>)
    /\ HasFragments(run[2].state.error[1], StrOf(run[2].scrapeExc[1]))
    /\ Count(2, "extract_call") = 0
    /\ run[2].input.url # run[1].input.url
    /\ faultsLeft = Some(MaxFaults)
    /\ Logged(1, "fetch_return")

\* C4: within a run, every call of extract_from_markdown comes after the
\* return of fetch_page_content and after an evaluation of the gate, and the
\* gate is evaluated on the state node_scrape returned.
C4_StagesInOrder ==
    \A r \in RunSlots :
        /\ \A i \in DOMAIN run[r].log :
              run[r].log[i] = "extract_call" =>
                  \E j \in 1..(i - 1), k \in 1..(i - 1) :
                      /\ j < k
                      /\ run[r].log[j] = "fetch_return"
                      /\ run[r].log[k] = "gate"
        /\ (run[r].pc \in {"extract", "extract_llm"} => IsSet(run[r].gateSaw))
        /\ (IsSet(run[r].gateSaw) => run[r].gateSaw = run[r].scrapeOut)

\* the extraction call is in flight, after the fetch returned and the gate
\* was evaluated
C4_Witness ==
    /\ run[1].pc = "extract_llm"
    /\ run[1].log = <<"start_call", "start_return", "fetch_call", "fetch_return",
                      "gate", "extract_call">>
    /\ run[1].gateSaw = run[1].scrapeOut

\* C5 as stated: in every run fetch_page_content is called exactly once and
\* extract_from_markdown at most once.
C5_FetchExactlyOnce ==
    \A r \in RunSlots :
        run[r].pc = END
        => Count(r, "fetch_call") = 1 /\ Count(r, "extract_call") <= 1

\* C5 as amended: in every run fetch_page_content is called at most once and
\* extract_from_markdown at most once; a finished run has called
\* fetch_page_content exactly once when its start() returned, and not at all
\* when its start() raised.
C5_NoRetry ==
    \A r \in RunSlots :
        /\ Count(r, "start_call") <= 1
        /\ Count(r, "fetch_call") <= 1
        /\ Count(r, "extract_call") <= 1
        /\ (run[r].pc = END /\ Logged(r, "start_return")
               => Count(r, "fetch_call") = 1)
        /\ (Logged(r, "start_raise") => Count(r, "fetch_call") = 0)

\* a run whose start() raised has ended without any fetch_page_content call
C5_Witness ==
    /\ run[1].pc = END
    /\ Logged(1, "start_raise")
    /\ Count(1, "start_call") = 1
    /\ Count(1, "fetch_call") = 0
    /\ Count(1, "extract_call") = 0

\* C6: no exception of start(), fetch_page_content, the making of the
\* extractor or extract_from_markdown leaves graph.ainvoke; the node that
\* called the service catches it and the state it returns carries the
\* failure message in its error field, and the run ends.
C6_FailuresBecomeErrorField ==
    \A r \in RunSlots :
        /\ run[r].pc # "raised"
        /\ ~IsSet(run[r].propagated)
        /\ (Logged(r, "start_raise") \/ Logged(r, "fetch_raise")
               => /\ IsSet(run[r].scrapeExc)
                  /\ Truthy(run[r].scrapeOut[1].error)
                  /\ HasFragments(run[r].scrapeOut[1].error[1],
                              StrOf(run[r].scrapeExc[1])))
        /\ (ExtractionRaised(r)
               => /\ run[r].pc = END
                  /\ IsSet(run[r].extractExc)
                  /\ Truthy(run[r].state.error)
                  /\ HasFragments(run[r].state.error[1], StrOf(run[r].extractExc[1])))

\* the fetch of a run returned its text and the making of the extractor
\* raised: no extraction call was made, there is still no extractor, and
\* the run has ended normally with the message of that failure in its error
\* field and no product
C6_Witness ==
    /\ run[1].pc = END
    /\ Logged(1, "fetch_return")
    /\ Logged(1, "extractor_raise")
    /\ ~Logged(1, "extract_call")
    /\ ~extractor
    /\ ~IsSet(run[1].propagated)
    /\ run[1].extractExc = Some(ExtractorInitFailure)
    /\ run[1].state.error =
          Some(<<"Failed to extract product information from ", run[1].input.url,
                 ": ", ExtractorInitText>>)
    /\ HasFragments(run[1].state.error[1], StrOf(run[1].extractExc[1]))
    /\ run[1].state.product = None

\* C23: in a run in which fetch_page_content returned a result with
\* clean_text T and extract_from_markdown returned a record R, the extraction
\* was called exactly once, with T and the url of the run, and the run ends
\* with scraped_content T, product R and error None.
C23_SuccessPath ==
    \A r \in RunSlots :
        LET rn == run[r]
        IN  /\ rn.pc = END
            /\ IsSet(rn.fetchRet) /\ rn.fetchRet[1].kind = "return"
            /\ IsSet(rn.extractRet) /\ rn.extractRet[1].kind = "return"
            => /\ Count(r, "extract_call") = 1
               /\ rn.extractArgs =
                     Some([markdown_content |-> rn.fetchRet[1].val[1].clean_text,
                           source_url |-> rn.input.url])
               /\ rn.state.scraped_content = Some(rn.fetchRet[1].val[1].clean_text)
               /\ rn.state.product = Some(rn.extractRet[1].val[1])
               /\ rn.state.error = None

\* a run handed a stale error and a stale product has fetched a text and
\* extracted a record with a tier
C23_Witness ==
    /\ run[1].pc = END
    /\ IsSet(run[1].input.error)
    /\ IsSet(run[1].input.product)
    /\ IsSet(run[1].fetchRet) /\ run[1].fetchRet[1].kind = "return"
    /\ run[1].fetchRet[1].val[1].clean_text = <<"Pricing", "Pro", "$8", "\n">>
    /\ IsSet(run[1].extractRet) /\ run[1].extractRet[1].kind = "return"
    /\ run[1].extractRet[1].val[1].pricing_tiers = <<ProTier>>
    /\ run[1].state.product = Some(run[1].extractRet[1].val[1])
    /\ run[1].state.error = None

\* C24: extract_from_markdown is called only in a run whose state, as the
\* fetch stage left it, has error unset and a non-empty text; a run that
\* enters the extraction stage with the text None or empty makes no
\* extraction call and ends with error set and product None.
C24_ExtractGuard ==
    \A r \in RunSlots :
        LET rn == run[r]
        IN  /\ Logged(r, "extract_call")
               => /\ IsSet(rn.scrapeOut)
                  /\ ~IsSet(rn.scrapeOut[1].error)
                  /\ Truthy(rn.scrapeOut[1].scraped_content)
            /\ rn.pc = END /\ rn.visited = <<"scrape", "extract">>
                  /\ ~Truthy(rn.scrapeOut[1].scraped_content)
               => /\ ~Logged(r, "extract_call")
                  /\ rn.extractRet = None
                  /\ Truthy(rn.state.error)
                  /\ rn.state.product = None

\* a stubbed fetch returned an empty text in a run handed a stale product:
\* the extraction stage was entered, made no call, made no extractor and
\* left an error
C24_Witness ==
    /\ run[1].pc = END
    /\ IsSet(run[1].input.product)
    /\ IsSet(run[1].fetchRet) /\ run[1].fetchRet[1].kind = "return"
    /\ run[1].fetchRet[1].val[1].clean_text = <<>>
    /\ run[1].visited = <<"scrape", "extract">>
    /\ ~Logged(1, "extract_call")
    /\ ~extractor
    /\ run[1].state.error = Some(<<"Cannot extract: scraped_content is missing">>)
    /\ run[1].state.product = None

\* C27: through a run the url of the state is the url of the input; the
\* state node_scrape returns differs from the input in scraped_content and
\* error only, so its product is the input's; and the state node_extract
\* returns differs from the one it was given in product and error only, so
\* its scraped_content is the one node_scrape returned.
C27_StagesWriteOwnFields ==
    \A r \in RunSlots :
        LET rn == run[r]
        IN  Started(r)
            => /\ rn.state.url = rn.input.url
               /\ (rn.pc \in {"invoke", "scrape", "scrape_await"}
                     => rn.state = rn.input)
               /\ (IsSet(rn.scrapeOut)
                     => /\ rn.scrapeOut[1].url = rn.input.url
                        /\ rn.scrapeOut[1].product = rn.input.product)
               /\ (rn.pc \in {"gate", "extract", "extract_llm"}
                     => rn.state = rn.scrapeOut[1])
               /\ (rn.pc = END
                     => /\ rn.state.url = rn.scrapeOut[1].url
                        /\ rn.state.scraped_content = rn.scrapeOut[1].scraped_content
                        /\ (rn.visited = <<"scrape">> => rn.state = rn.scrapeOut[1]))

\* a run given a state that carried a product has ended after both stages:
\* node_scrape passed the product on, node_extract replaced it and left the
\* content node_scrape wrote
C27_Witness ==
    /\ run[1].pc = END
    /\ run[1].visited = <<"scrape", "extract">>
    /\ IsSet(run[1].input.product)
    /\ run[1].scrapeOut[1].product = run[1].input.product
    /\ IsSet(run[1].extractRet) /\ run[1].extractRet[1].kind = "return"
    /\ run[1].state.product # run[1].input.product
    /\ IsSet(run[1].scrapeOut[1].scraped_content)
    /\ run[1].state.scraped_content = run[1].scrapeOut[1].scraped_content
    /\ run[1].state.scraped_content # run[1].input.scraped_content
    /\ run[1].state.url = run[1].input.url

\* C28: every run that is invoked reaches the end, whatever the other run
\* does meanwhile: again and again no run is in progress, and a run that
\* is in progress leaves that condition by reaching the end only; a
\* finished run has entered the scrape node alone, and then node_scrape
\* returned an error, or the scrape node and then the extract node, and
\* then node_scrape returned no error; the extract node is entered at most
\* once, as the last node of the run, and from the end no node is entered
\* again within the run.
C28_RunCompletes ==
    /\ []<>(\A r \in RunSlots : ~InProgress(run[r]))
    /\ [][\A r \in RunSlots :
            InProgress(run[r]) /\ ~InProgress(run'[r]) => run'[r].pc = END]_run
    /\ [](\A r \in RunSlots :
            run[r].pc = END
            => /\ run[r].visited \in {<<"scrape">>, <<"scrape", "extract">>}
               /\ (run[r].visited = <<"scrape">>
                     <=> Truthy(run[r].scrapeOut[1].error)))
    /\ [](\A r \in RunSlots : \A i \in DOMAIN run[r].visited :
            run[r].visited[i] = "extract" => i = Len(run[r].visited))
    /\ [][\A r \in RunSlots :
            run[r].pc = END /\ run'[r] # run[r]
            => run'[r].pc = "invoke" /\ run'[r].visited = <<>>]_run

\* two runs were in progress at a time and both have ended, one of them
\* after both of its stages
C28_Witness ==
    /\ run[1].pc = END
    /\ run[2].pc = END
    /\ run[2].visited = <<"scrape", "extract">>
    /\ ~Truthy(run[2].scrapeOut[1].error)
    /\ run[2].log[Len(run[2].log)] \in
          {"extract_return", "extract_raise", "extractor_raise"}

====
